---------------------------- MODULE Spec2Model ----------------------------
(***************************************************************************)
(* A model of serde-eth: the Ethereum ABI hex codec built on serde.        *)
(*                                                                         *)
(* The encoder (ser.rs, custom_ser.rs) and the decoder (de.rs,             *)
(* custom_de.rs) are translated function by function.  A stream is a       *)
(* sequence of characters; a character is a code: 0..15 are the lowercase  *)
(* hex digits, 16..21 the uppercase digits 'A'..'F', 22 any other          *)
(* character.  A machine integer is its bit pattern, written as big-endian *)
(* hex digits (a u64 is 16 digits, a u8 is 2), so that 64-bit arithmetic   *)
(* is exact although TLC's own integers are 32 bits wide.                  *)
(***************************************************************************)
EXTENDS Integers, Sequences, FiniteSets, TLC

(***************************************************************************)
(* Bounds of the model.                                                    *)
(***************************************************************************)
\* longest fixed-length array / variable-length sequence in the value universe
MaxLen == 2

\* the leading words of an encoding a caller may replace
MaxRewrite == 2

\* the latest read call at which a reader given to from_reader may fail
MaxFail == 3

\* the latest seek call at which a reader given to from_reader may fail
MaxSeekFail == 4

(***************************************************************************)
(* Sequences, digits and bytes.                                            *)
(***************************************************************************)
\* a function on 1..n as an explicit sequence
AsSeq(f) == f \o <<>>

\* the `?` of a Result: an Err (or a panic) leaves, an Ok goes on
Try(r, Then(_)) == IF r.st # "ok" THEN r ELSE Then(r)

\* `let x = ..;`
With(x, In(_)) == In(x)

Rep(x, n) == AsSeq([i \in 1..n |-> x])

Zeros(n) == Rep(0, n)

Take(s, n) == SubSeq(s, 1, n)

Drop(s, n) == SubSeq(s, n + 1, Len(s))

LastN(s, n) == SubSeq(s, Len(s) - n + 1, Len(s))

AllZero(s) == \A i \in 1..Len(s) : s[i] = 0

\* the value of a short digit string, base 16 (at most 7 digits: below 2^28)
DigitsToNat(ds) ==
    LET n == Len(ds)
        d(i) == IF i <= n THEN ds[n + 1 - i] ELSE 0
    IN  d(1) + 16 * d(2) + 256 * d(3) + 4096 * d(4) + 65536 * d(5)
        + 1048576 * d(6) + 16777216 * d(7)

\* n as exactly w hex digits (n < 16^w, n below 2^31)
Pow16(k) == CASE k = 0 -> 1 [] k = 1 -> 16 [] k = 2 -> 256 [] k = 3 -> 4096
              [] k = 4 -> 65536 [] k = 5 -> 1048576 [] k = 6 -> 16777216
              [] OTHER -> 268435456

NatToDigits(n, w) ==
    AsSeq([i \in 1..w |-> IF w - i > 7 THEN 0 ELSE (n \div Pow16(w - i)) % 16])

\* bytes <-> digits, two digits per byte, high nibble first
BytesToDigits(bs) ==
    AsSeq([i \in 1..(2 * Len(bs)) |-> IF i % 2 = 1 THEN bs[(i + 1) \div 2] \div 16
                                                   ELSE bs[i \div 2] % 16])

DigitsToBytes(ds) ==
    AsSeq([i \in 1..(Len(ds) \div 2) |-> ds[2 * i - 1] * 16 + ds[2 * i]])

(***************************************************************************)
(* 64-bit unsigned arithmetic on 16-digit patterns (u64, usize).           *)
(***************************************************************************)
U64(n) == NatToDigits(n, 16)

\* below 2^28: the pattern's value is a TLC integer
U64Small(d) == AllZero(Take(d, Len(d) - 7))

U64Nat(d) == DigitsToNat(LastN(d, 7))

\* a + b + c on equally long digit strings: <<sum digits, carry out>>.
\* The carry into digit i comes from a lower digit that generates one, or
\* from c, through digits that all propagate it
CarryInto(a, b, c, i) ==
    LET n == Len(a)
    IN  \/ \E j \in (i + 1)..n : /\ a[j] + b[j] >= 16
                                 /\ \A k \in (i + 1)..(j - 1) : a[k] + b[k] = 15
        \/ c = 1 /\ \A k \in (i + 1)..n : a[k] + b[k] = 15

AddDigits(a, b, c) ==
    <<AsSeq([i \in 1..Len(a) |->
                (a[i] + b[i] + (IF CarryInto(a, b, c, i) THEN 1 ELSE 0)) % 16]),
      IF CarryInto(a, b, c, 0) THEN 1 ELSE 0>>

\* Rust's `a + b` on u64/usize: the wrapped sum and whether it overflowed
U64Add(a, b) == LET r == AddDigits(a, b, 0) IN [v |-> r[1], over |-> r[2] = 1]

\* Rust's `a << 1` on u64: the top bit is dropped, never a panic
U64Shl1(a) == AddDigits(a, a, 0)[1]

\* (x >> 6) << 6: the low six bits cleared
U64Floor64(a) ==
    AsSeq([i \in 1..16 |-> IF i = 16 THEN 0 ELSE IF i = 15 THEN (a[15] \div 4) * 4 ELSE a[i]])

\* x % 32 = 0 on a u64
U64Mult32(a) == (a[15] * 16 + a[16]) % 32 = 0

\* above isize::MAX: the top bit is set
U64TopBit(a) == a[1] >= 8

\* the number of significant bits of a big-endian digit string (U256::bits)
Bits(ds) ==
    IF AllZero(ds) THEN 0
    ELSE LET i == CHOOSE j \in 1..Len(ds) : ds[j] # 0 /\ \A k \in 1..(j - 1) : ds[k] = 0
         IN  (Len(ds) - i) * 4
             + (IF ds[i] >= 8 THEN 4 ELSE IF ds[i] >= 4 THEN 3 ELSE IF ds[i] >= 2 THEN 2 ELSE 1)

\* bitwise not, and two's-complement negation, of a digit string
NotDigits(ds) == AsSeq([i \in 1..Len(ds) |-> 15 - ds[i]])

NegDigits(ds) == AddDigits(NotDigits(ds), Zeros(Len(ds) - 1) \o <<1>>, 0)[1]

\* `v as u64` / `v as i64` from a narrower pattern: zero- or sign-extension
ZeroExtend(ds, w) == Zeros(w - Len(ds)) \o ds

SignExtend(ds, w) == Rep(IF ds[1] >= 8 THEN 15 ELSE 0, w - Len(ds)) \o ds

(***************************************************************************)
(* Errors (error.rs).  An error is its ErrorCode with the description      *)
(* std::error::Error::description gives; a TupleHint keeps the hint and    *)
(* shows its cause's description.                                          *)
(***************************************************************************)
NoErr == [code |-> "None", desc |-> "", index |-> 0, is_dynamic |-> FALSE]

ErrMessage(s) == [code |-> "Message", desc |-> s, index |-> 0, is_dynamic |-> FALSE]

ErrParsing(s) == [code |-> "Parsing", desc |-> s, index |-> 0, is_dynamic |-> FALSE]

ErrHexParsing(s) == [code |-> "HexParsing", desc |-> s, index |-> 0, is_dynamic |-> FALSE]

ErrIO(s) == [code |-> "IO", desc |-> s, index |-> 0, is_dynamic |-> FALSE]

ErrNotImplemented ==
    [code |-> "NotImplemented", desc |-> "not implemented", index |-> 0, is_dynamic |-> FALSE]

\* Error::hint(TupleHint::new(index, is_dynamic), cause)
ErrHint(index, is_dynamic, cause) ==
    [code |-> "TupleHint", desc |-> cause.desc, index |-> index, is_dynamic |-> is_dynamic]

\* eth.rs calls Error::eth_parsing, which error.rs does not define; the
\* specification files a malformed word under the data errors
ErrEthParsing(s) == [code |-> "Message", desc |-> s, index |-> 0, is_dynamic |-> FALSE]

classify(e) ==
    CASE e.code = "TupleHint" -> "TupleHint"
      [] e.code = "Message" -> "Data"
      [] e.code = "IO" -> "IO"
      [] e.code = "NotImplemented" -> "Internal"
      [] e.code = "HexParsing" -> "Syntax"
      [] e.code = "Parsing" -> "Syntax"
      [] OTHER -> "None"

\* Error::is_eof
is_eof(e) == classify(e) = "EOF"

InsufficientBytes == "insufficient bytes read from reader"

\* a Result<T>: Ok(v) or Err(e)
Ok(v) == [ok |-> TRUE, v |-> v, e |-> NoErr]

Err(e) == [ok |-> FALSE, v |-> <<>>, e |-> e]

(***************************************************************************)
(* The hex crate and the primitive codec (eth.rs).                         *)
(***************************************************************************)
\* the nibble of a character: 0-9, a-f and A-F are digits, -1 is no digit
HexVal(c) == IF c < 16 THEN c ELSE IF c < 22 THEN c - 6 ELSE -1

\* hex::decode: the bytes, or FromHexError
HexDecode(cs) ==
    IF Len(cs) % 2 = 1 THEN Err(ErrHexParsing("odd number of digits"))
    ELSE IF \E i \in 1..Len(cs) : HexVal(cs[i]) < 0
         THEN Err(ErrHexParsing("invalid character"))
    ELSE Ok(DigitsToBytes(AsSeq([i \in 1..Len(cs) |-> HexVal(cs[i])])))

\* hex::encode: lowercase digits
HexEncode(bs) == BytesToDigits(bs)

\* pad_u64: the value's eight bytes, right aligned in 32
pad_u64(value) == Zeros(24) \o DigitsToBytes(value)

\* pad_i64: as pad_u64 for value >= 0, else the left 24 bytes are 0xff
pad_i64(value) ==
    IF value[1] < 8 THEN pad_u64(value) ELSE Rep(255, 24) \o DigitsToBytes(value)

\* ethabi::encode of one Bool / Uint / Int token is its 32-byte word
encode_bool(value) == HexEncode(Zeros(31) \o <<IF value THEN 1 ELSE 0>>)

encode_i64(value) == HexEncode(pad_i64(value))

encode_u64(value) == HexEncode(pad_u64(value))

\* the zero padding of n content bytes up to a multiple of 32
PadLen(n) == (32 - (n % 32)) % 32

\* ethabi::encode(Token::Bytes): offset 32, length, right-padded content
encode_bytes(value) ==
    HexEncode(pad_u64(U64(32)) \o pad_u64(U64(Len(value)))
              \o value \o Zeros(PadLen(Len(value))))

\* encode_bytes_dynamic: the same split into offset, size and content
encode_bytes_dynamic(value) ==
    LET hex_encoded == encode_bytes(value)
    IN  [offset |-> Take(hex_encoded, 64),
         size |-> SubSeq(hex_encoded, 65, 128),
         content |-> Drop(hex_encoded, 128)]

\* ethabi::decode of a Bool word: the 31 left bytes are zero, true is 1
decode_bool(bytes) ==
    LET decoded == HexDecode(bytes)
    IN  IF ~decoded.ok THEN decoded
        ELSE IF ~AllZero(Take(decoded.v, 31)) THEN Err(ErrEthParsing("Cannot decode bool"))
        ELSE Ok(decoded.v[32] = 1)

verify_uint(u, size) ==
    IF Bits(u) > size
    THEN Err(ErrParsing("decoded integer does not fit in integer of specified size"))
    ELSE Ok(LastN(u, 16))

verify_int(int, size) ==
    IF int[1] < 8
    THEN IF Bits(int) >= size
         THEN Err(ErrParsing("decoded integer does not fit in integer of specified size"))
         ELSE Ok(LastN(int, 16))
    ELSE \* U256::overflowing_neg of a non-zero value is (!value, true)
         LET n0 == NotDigits(int)
             r == AddDigits(n0, Zeros(63) \o <<1>>, 0)
             n == r[1]
             low == LastN(n, 16)
         IN  IF r[2] = 1 \/ Bits(n) > size
             THEN Err(ErrParsing("decoded integer does not fit in integer of specified size"))
             ELSE Ok(IF low[1] >= 8 THEN low ELSE NegDigits(low))

decode_uint(bytes, size) ==
    IF size < 8 \/ size > 64
    THEN Err(ErrMessage("an unsigned integer must be anumber between 8 and 64 bits"))
    ELSE LET decoded == HexDecode(bytes)
         IN  IF ~decoded.ok THEN decoded
             ELSE verify_uint(BytesToDigits(decoded.v), size)

decode_int(bytes, size) ==
    IF size < 8 \/ size > 64
    THEN Err(ErrMessage("an integer must be a number between 8 and 64 bits"))
    ELSE LET decoded == HexDecode(bytes)
         IN  IF ~decoded.ok THEN decoded
             ELSE verify_int(BytesToDigits(decoded.v), size)

\* decode_bytes: the first len bytes (len a usize)
decode_bytes(bytes, len) ==
    LET decoded == HexDecode(bytes)
    IN  IF ~decoded.ok THEN decoded
        ELSE IF ~U64Small(len) \/ U64Nat(len) > Len(decoded.v)
             THEN Err(ErrParsing("decoded bytes are smaller than the required length"))
        ELSE Ok(Take(decoded.v, U64Nat(len)))

\* Fixed::get: the recognized nominal names
FixedGet(name) == IF name \in {"H256", "H160", "U256"} THEN name ELSE "None"

(***************************************************************************)
(* Types and values: what serde's Serialize / Deserialize implementations  *)
(* of a Rust type drive.  A type is [k, bits, name, es]; a value is a      *)
(* BOOLEAN (bool), a digit pattern of bits/4 digits (integers), a sequence *)
(* of bytes (char, String), <<>> (unit), <<>> or <<v>> (Option), a         *)
(* sequence of values (array, tuple, struct, Vec) or the wrapped value     *)
(* (newtype struct).                                                       *)
(***************************************************************************)
TBool == [k |-> "bool", bits |-> 0, name |-> "", es |-> <<>>]

TUInt(b) == [k |-> "uint", bits |-> b, name |-> "", es |-> <<>>]

TInt(b) == [k |-> "int", bits |-> b, name |-> "", es |-> <<>>]

TChar == [k |-> "char", bits |-> 0, name |-> "", es |-> <<>>]

TString == [k |-> "string", bits |-> 0, name |-> "", es |-> <<>>]

TUnit == [k |-> "unit", bits |-> 0, name |-> "", es |-> <<>>]

TOption(t) == [k |-> "option", bits |-> 0, name |-> "", es |-> <<t>>]

TSeq(t) == [k |-> "seq", bits |-> 0, name |-> "", es |-> <<t>>]

TTuple(ts) == [k |-> "tuple", bits |-> 0, name |-> "", es |-> ts]

TArray(t, n) == TTuple(Rep(t, n))

TStruct(ts) == [k |-> "struct", bits |-> 0, name |-> "", es |-> ts]

TNewtype(nm, t) == [k |-> "newtype", bits |-> 0, name |-> nm, es |-> <<t>>]

\* oasis_std::types: H256([u8; 32]), H160([u8; 20]), U256([u64; 4])
TH256 == TNewtype("H256", TArray(TUInt(8), 32))

TH160 == TNewtype("H160", TArray(TUInt(8), 20))

TU256 == TNewtype("U256", TArray(TUInt(64), 4))

(***************************************************************************)
(* The layout tree (ser.rs, enum Node).  s is the node's String.  marks is *)
(* bookkeeping for the properties, not program state: one record per       *)
(* offset word in s, with the place of the word (at), of the first head    *)
(* word of the composite that wrote it (anchor) and of the payload it was  *)
(* written for (target), all in characters from the start of s; first      *)
(* tells the composite's first dynamic child, n is the number of children, *)
(* head the length of the composite's head in characters and extra the     *)
(* characters its Fixed children take beyond one word each; by is the      *)
(* writer: a sequence, a tuple or the root.                                *)
(***************************************************************************)
NodeFixed(h) == [k |-> "Fixed", s |-> h, ch |-> <<>>, marks |-> <<>>]

NodeDynamic(t, m) == [k |-> "Dynamic", s |-> t, ch |-> <<>>, marks |-> m]

NodeSeq(ch) == [k |-> "Seq", s |-> <<>>, ch |-> ch, marks |-> <<>>]

NodeTuple(ch) == [k |-> "Tuple", s |-> <<>>, ch |-> ch, marks |-> <<>>]

ShiftMarks(ms, by) ==
    AsSeq([i \in 1..Len(ms) |->
             [ms[i] EXCEPT !.at = @ + by, !.anchor = @ + by, !.target = @ + by]])

\* Node::serialize_simple
serialize_simple(head, tail) == head \o tail

\* a head length of one word for every child
HeaderLenOneWordEach(nodes) == 32 * Len(nodes)

\* Node::calculate_header_len_from_simple_nodes
RECURSIVE calculate_header_len_from_simple_nodes(_)
calculate_header_len_from_simple_nodes(nodes) ==
    IF nodes = <<>> THEN 0
    ELSE (IF Head(nodes).k = "Fixed" THEN Len(Head(nodes).s) \div 2 ELSE 32)
         + calculate_header_len_from_simple_nodes(Tail(nodes))

\* a head for every tuple that has a child
ShouldTupleHaveHeadIfAny(nodes) == nodes # <<>>

\* Node::should_tuple_have_head
should_tuple_have_head(nodes) == \E i \in 1..Len(nodes) : nodes[i].k = "Dynamic"

\* the loop shared by aggregate_simple_nodes_in_sequence and _in_tuple: head
\* and tail grow child by child, offset is the loop's running offset; own are
\* the marks of the offset words written here (target counted from the start
\* of the tail), deep those of the children's payloads (counted likewise)
RECURSIVE AggregateLoopStaleOffset(_, _, _)
AggregateLoopStaleOffset(nodes, i, acc) ==
    IF i > Len(nodes) THEN acc
    ELSE LET node == nodes[i]
         IN  IF node.k = "Fixed"
             THEN AggregateLoopStaleOffset(nodes, i + 1,
                    [acc EXCEPT !.head = @ \o node.s,
                                !.extra = @ + Len(node.s) - 64])
             ELSE AggregateLoopStaleOffset(nodes, i + 1,
                    [head |-> acc.head \o encode_u64(U64(acc.offset)),
                     tail |-> acc.tail \o node.s,
                     offset |-> acc.offset,
                     own |-> Append(acc.own,
                                [at |-> Len(acc.head), anchor |-> acc.anchor,
                                 target |-> Len(acc.tail),
                                 first |-> acc.own = <<>>, n |-> Len(nodes), head |-> 0,
                                 extra |-> 0, by |-> acc.by]),
                     deep |-> acc.deep \o ShiftMarks(node.marks, Len(acc.tail)),
                     anchor |-> acc.anchor, extra |-> acc.extra, by |-> acc.by])

RECURSIVE AggregateLoop(_, _, _)
AggregateLoop(nodes, i, acc) ==
    IF i > Len(nodes) THEN acc
    ELSE LET node == nodes[i]
         IN  IF node.k = "Fixed"
             THEN AggregateLoop(nodes, i + 1,
                    [acc EXCEPT !.head = @ \o node.s,
                                !.extra = @ + Len(node.s) - 64])
             ELSE AggregateLoop(nodes, i + 1,
                    [head |-> acc.head \o encode_u64(U64(acc.offset)),
                     tail |-> acc.tail \o node.s,
                     offset |-> acc.offset + (Len(node.s) \div 2),
                     own |-> Append(acc.own,
                                [at |-> Len(acc.head), anchor |-> acc.anchor,
                                 target |-> Len(acc.tail),
                                 first |-> acc.own = <<>>, n |-> Len(nodes), head |-> 0,
                                 extra |-> 0, by |-> acc.by]),
                     deep |-> acc.deep \o ShiftMarks(node.marks, Len(acc.tail)),
                     anchor |-> acc.anchor, extra |-> acc.extra, by |-> acc.by])

AggregateMarks(acc) ==
    LET h == Len(acc.head)
    IN  AsSeq([i \in 1..Len(acc.own) |->
                 [acc.own[i] EXCEPT !.target = @ + h, !.head = h - acc.anchor,
                                    !.extra = acc.extra]])
        \o ShiftMarks(acc.deep, h)

\* Node::aggregate_simple_nodes_in_sequence
aggregate_simple_nodes_in_sequence(nodes) ==
    With(AggregateLoop(nodes, 1,
            [head |-> encode_u64(U64(Len(nodes))), tail |-> <<>>,
             offset |-> calculate_header_len_from_simple_nodes(nodes),
             own |-> <<>>, deep |-> <<>>, anchor |-> 64, extra |-> 0, by |-> "seq"]),
         LAMBDA acc : NodeDynamic(serialize_simple(acc.head, acc.tail), AggregateMarks(acc)))

\* Node::aggregate_simple_nodes_in_tuple
aggregate_simple_nodes_in_tuple(nodes) ==
    With(AggregateLoop(nodes, 1,
            [head |-> <<>>, tail |-> <<>>,
             offset |-> calculate_header_len_from_simple_nodes(nodes),
             own |-> <<>>, deep |-> <<>>, anchor |-> 0, extra |-> 0, by |-> "tuple"]),
         LAMBDA acc :
            IF should_tuple_have_head(nodes)
            THEN NodeDynamic(serialize_simple(acc.head, acc.tail), AggregateMarks(acc))
            ELSE NodeFixed(serialize_simple(acc.head, acc.tail)))

\* Node::serialize_node_to_simple with Node::serialize_compound_to_simple
RECURSIVE serialize_node_to_simple(_)
serialize_node_to_simple(node) ==
    IF node.k \in {"Seq", "Tuple"}
    THEN With(AsSeq([i \in 1..Len(node.ch) |-> serialize_node_to_simple(node.ch[i])]),
              LAMBDA simple_nodes :
                 IF node.k = "Seq" THEN aggregate_simple_nodes_in_sequence(simple_nodes)
                 ELSE aggregate_simple_nodes_in_tuple(simple_nodes))
    ELSE node

\* the mark of the root's offset word
RootMark == [at |-> 0, anchor |-> 0, target |-> 64, first |-> TRUE, n |-> 1,
             head |-> 64, extra |-> 0, by |-> "root"]

SerializeDynamicBare(content) == content

\* Node::serialize_dynamic: the root's offset word, 32, before the content
serialize_dynamic(content) == encode_u64(U64(32)) \o content

\* Node::serialize (with serialize_nodes): the String and the marks in it
NodeSerialize(node) ==
    With(serialize_node_to_simple(node),
         LAMBDA simple :
            IF simple.k = "Fixed"
            THEN [s |-> serialize_simple(simple.s, <<>>), marks |-> <<>>]
            ELSE [s |-> serialize_dynamic(simple.s),
                  marks |-> <<RootMark>> \o ShiftMarks(simple.marks, 64)])

(***************************************************************************)
(* The fixed big-integer serializer (custom_ser.rs, BasicEthSerializer).   *)
(* A serializer call ends "ok", "err" (with e) or "panic".                 *)
(***************************************************************************)
new_hash(len) ==
    [offset |-> 32 - len, offset_sign |-> 1,
     serializer_type |-> IF len = 20 THEN "H160" ELSE "H256", content |-> Zeros(32)]

\* a serializer for U256 that fills the word from its first byte on
NewUintForward(len) ==
    [offset |-> 0, offset_sign |-> 1, serializer_type |-> "U256", content |-> Zeros(32)]

new_uint(len) ==
    [offset |-> 31, offset_sign |-> -1, serializer_type |-> "U256", content |-> Zeros(32)]

\* BasicEthSerializer::serialize: hex::encode(self.content)
BasicSerialize(bs) == HexEncode(bs.content)

\* content[index] = byte, for index = offset as usize: a panic out of 0..31
BasicPut(bs, index, byte) ==
    IF index < 0 \/ index > 31 THEN [st |-> "panic", bs |-> bs, e |-> NoErr]
    ELSE [st |-> "ok", bs |-> [bs EXCEPT !.content[index + 1] = byte], e |-> NoErr]

\* serialize_u8 / serialize_i8 of BasicEthSerializer
BasicSerializeU8(bs, value) ==
    IF bs.serializer_type = "U256" THEN [st |-> "panic", bs |-> bs, e |-> NoErr]
    ELSE Try(BasicPut(bs, bs.offset, DigitsToNat(value)),
             LAMBDA r : [r EXCEPT !.bs.offset = @ + bs.offset_sign])

\* the byte loop of serialize_u32 / serialize_u64: byte_index in 0..nbytes-1
RECURSIVE BasicPutBytes(_, _, _, _)
BasicPutBytes(bs, value, byte_index, nbytes) ==
    IF byte_index = nbytes THEN [st |-> "ok", bs |-> bs, e |-> NoErr]
    ELSE Try(BasicPut(bs, bs.offset + byte_index * bs.offset_sign,
                      DigitsToBytes(value)[(Len(value) \div 2) - byte_index]),
             LAMBDA r : BasicPutBytes(r.bs, value, byte_index + 1, nbytes))

\* serialize_u32 / serialize_u64 of BasicEthSerializer
BasicSerializeWide(bs, value, nbytes) ==
    IF bs.serializer_type # "U256" THEN [st |-> "panic", bs |-> bs, e |-> NoErr]
    ELSE Try(BasicPutBytes(bs, value, 0, nbytes),
             LAMBDA r : [r EXCEPT !.bs.offset = @ + nbytes * bs.offset_sign])

\* value.serialize(&mut BasicEthSerializer): every other call is
\* Err(not_implemented)
SerBasic(t, v, bs) ==
    CASE t.k = "uint" /\ t.bits = 8 -> BasicSerializeU8(bs, v)
      [] t.k = "int" /\ t.bits = 8 -> BasicSerializeU8(bs, v)
      [] t.k = "uint" /\ t.bits = 32 -> BasicSerializeWide(bs, v, 4)
      [] t.k = "uint" /\ t.bits = 64 -> BasicSerializeWide(bs, v, 8)
      [] OTHER -> [st |-> "err", bs |-> bs, e |-> ErrNotImplemented]

\* the elements of a tuple given to a BigInteger compound, in order
RECURSIVE SerBasicElems(_, _, _, _)
SerBasicElems(ts, vs, i, bs) ==
    IF i > Len(vs) THEN [st |-> "ok", bs |-> bs, e |-> NoErr]
    ELSE Try(SerBasic(ts[i], vs[i], bs), LAMBDA r : SerBasicElems(ts, vs, i + 1, r.bs))

\* the serializer serialize_tuple picks for a selected fixed type
BasicNew(custom) ==
    CASE custom = "H256" -> new_hash(32)
      [] custom = "H160" -> new_hash(20)
      [] OTHER -> new_uint(32)

(***************************************************************************)
(* The nested serializer (ser.rs, NodeSerializer): root is the composite   *)
(* being filled, current_custom_serializer the pending fixed type.         *)
(***************************************************************************)
NodeSerializerNew(node) == [root |-> node, current_custom_serializer |-> "None"]

\* Node::push on the serializer's root (the scalar serializers' self.root.push)
RootPush(ns, node) == [ns EXCEPT !.root.ch = Append(@, node)]

\* NodeSerializer::push: clears the selection, then pushes
NodeSerializerPush(ns, node) ==
    RootPush([ns EXCEPT !.current_custom_serializer = "None"], node)

ElemTypes(t, v) == IF t.k \in {"seq", "option"} THEN Rep(t.es[1], Len(v)) ELSE t.es

\* Ok(()) with the serializer as it is left
Pushed(ns) == [st |-> "ok", ns |-> ns, e |-> NoErr]

\* value.serialize(&mut NodeSerializer) for a value v of type t
RECURSIVE SerNode(_, _, _)
RECURSIVE SerNodeElems(_, _, _, _)
SerNode(t, v, ns) ==
    CASE t.k = "bool" -> Pushed(RootPush(ns, NodeFixed(encode_bool(v))))
      [] t.k = "uint" -> Pushed(RootPush(ns, NodeFixed(encode_u64(ZeroExtend(v, 16)))))
      [] t.k = "int" -> Pushed(RootPush(ns, NodeFixed(encode_i64(SignExtend(v, 16)))))
      [] t.k \in {"char", "string"} ->
            With(encode_bytes_dynamic(v),
                 LAMBDA encoded :
                    Pushed(RootPush(ns, NodeDynamic(encoded.size \o encoded.content, <<>>))))
      [] t.k = "unit" -> Pushed(ns)
      [] t.k = "newtype" ->
            SerNode(t.es[1], v, [ns EXCEPT !.current_custom_serializer = FixedGet(t.name)])
      [] t.k = "tuple" /\ ns.current_custom_serializer # "None" ->
            \* NodeCompound::BigInteger; end pushes the word through push
            With(SerBasicElems(t.es, v, 1, BasicNew(ns.current_custom_serializer)),
                 LAMBDA r :
                    IF r.st # "ok" THEN [st |-> r.st, ns |-> ns, e |-> r.e]
                    ELSE Pushed(NodeSerializerPush(ns, NodeFixed(BasicSerialize(r.bs)))))
      [] OTHER ->
            \* NodeCompound::Standard over a new Seq (Option, Vec) or Tuple
            With(SerNodeElems(ElemTypes(t, v), v, 1,
                              NodeSerializerNew(IF t.k \in {"seq", "option"}
                                                THEN NodeSeq(<<>>) ELSE NodeTuple(<<>>))),
                 LAMBDA r :
                    IF r.st # "ok" THEN [st |-> r.st, ns |-> ns, e |-> r.e]
                    ELSE Pushed(NodeSerializerPush(ns, r.ns.root)))

SerNodeElems(ts, vs, i, ser) ==
    IF i > Len(vs) THEN Pushed(ser)
    ELSE Try(SerNode(ts[i], vs[i], ser), LAMBDA r : SerNodeElems(ts, vs, i + 1, r.ns))

(***************************************************************************)
(* The root serializer (ser.rs, Serializer<W>) and to_string.  The result  *)
(* is the status, the String written and the marks of its offset words.    *)
(***************************************************************************)
Written(s, m) == [st |-> "ok", s |-> s, marks |-> m, e |-> NoErr]

RECURSIVE SerRoot(_, _, _)
SerRoot(t, v, custom) ==
    CASE t.k = "bool" -> Written(encode_bool(v), <<>>)
      [] t.k = "uint" -> Written(encode_u64(ZeroExtend(v, 16)), <<>>)
      [] t.k = "int" -> Written(encode_i64(SignExtend(v, 16)), <<>>)
      [] t.k \in {"char", "string"} -> Written(encode_bytes(v), <<RootMark>>)
      [] t.k = "unit" -> Written(<<>>, <<>>)
      [] t.k = "newtype" -> SerRoot(t.es[1], v, FixedGet(t.name))
      [] t.k \in {"tuple", "struct"} /\ custom # "None" ->
            \* RootCompound::BigInteger
            With(SerBasicElems(t.es, v, 1, BasicNew(custom)),
                 LAMBDA r :
                    IF r.st # "ok" THEN [st |-> r.st, s |-> <<>>, marks |-> <<>>, e |-> r.e]
                    ELSE Written(BasicSerialize(r.bs), <<>>))
      [] OTHER ->
            \* RootCompound::Standard
            With(SerNodeElems(ElemTypes(t, v), v, 1,
                              NodeSerializerNew(IF t.k \in {"seq", "option"}
                                                THEN NodeSeq(<<>>) ELSE NodeTuple(<<>>))),
                 LAMBDA r :
                    IF r.st # "ok" THEN [st |-> r.st, s |-> <<>>, marks |-> <<>>, e |-> r.e]
                    ELSE With(NodeSerialize(r.ns.root),
                              LAMBDA encoded : Written(encoded.s, encoded.marks)))

\* to_string (to_vec, to_writer with a fresh Serializer)
to_string(t, v) == SerRoot(t, v, "None")

(***************************************************************************)
(* The state of one run: the type T the caller names, the value given to   *)
(* to_string, the string given to from_str and where it comes from (the    *)
(* encoding as written, with a word replaced, or with characters           *)
(* appended), the build (debug builds panic on integer overflow, release   *)
(* builds wrap), the hints from_reader has collected, the outcome of the   *)
(* latest attempt and the final result.  from_reader takes any Read +      *)
(* Seek: fail_at is the number of the read call, and seek_fail_at the      *)
(* number of the seek call, at which the reader returns an io::Error, both *)
(* 0 for the Cursor of from_str, which never does.                         *)
(***************************************************************************)
VARIABLES pc, ty, value, encoded, input, origin, checked, fail_at, seek_fail_at, hints,
          attempts, res, result

vars == <<pc, ty, value, encoded, input, origin, checked, fail_at, seek_fail_at, hints,
          attempts, res, result>>

(***************************************************************************)
(* UTF-8 (std::str::from_utf8): the length of the first well-formed        *)
(* scalar of a byte string, 0 if it is ill-formed.                         *)
(***************************************************************************)
IsCont(b) == b >= 128 /\ b <= 191

Utf8FirstLen(bs) ==
    LET n == Len(bs)
        b == bs[1]
    IN  IF b <= 127 THEN 1
        ELSE IF b >= 194 /\ b <= 223 /\ n >= 2 /\ IsCont(bs[2]) THEN 2
        ELSE IF b >= 224 /\ b <= 239 /\ n >= 3 /\ IsCont(bs[2]) /\ IsCont(bs[3])
                /\ (b = 224 => bs[2] >= 160) /\ (b = 237 => bs[2] <= 159) THEN 3
        ELSE IF b >= 240 /\ b <= 244 /\ n >= 4 /\ IsCont(bs[2]) /\ IsCont(bs[3])
                /\ IsCont(bs[4]) /\ (b = 240 => bs[2] >= 144) /\ (b = 244 => bs[2] <= 143)
             THEN 4
        ELSE 0

RECURSIVE Utf8Valid(_)
Utf8Valid(bs) ==
    IF bs = <<>> THEN TRUE
    ELSE LET k == Utf8FirstLen(bs) IN k > 0 /\ Utf8Valid(Drop(bs, k))

(***************************************************************************)
(* The decoder's state (de.rs, Deserializer over a Cursor<&str>): a record *)
(* [tuple_counter, current_custom_deserializer, pos, reads, seeks,         *)
(* tuple_hints, scope, allocs, tuples, errs, kids, pops].  pos is the      *)
(* reader's position, reads and seeks the numbers of read and seek calls   *)
(* it has served.  allocs, tuples, errs, kids and pops are bookkeeping for *)
(* the properties: the sizes of the buffers                                *)
(* read_byte_array has allocated; for every tuple deserialize_tuple had to *)
(* tell Static from Dynamic, its identifier, the word peeked and the way   *)
(* taken; for every element that failed to decode, the access it was asked *)
(* of, the error given and returned and the types the scope had recorded;  *)
(* for every element that was decoded (kids), where the reader and the     *)
(* scope's counters were before and after; for every self.scope.pop() of   *)
(* the operation that pushed a scope (pops), whether it took that scope,   *)
(* another one or found the stack empty.                                   *)
(* A call ends "ok" with a value, "err" with an error or "panic", and      *)
(* returns the state it leaves.                                            *)
(***************************************************************************)
\* a new decoder that is given no hint
WithHintsForgotten(tuple_hints) ==
    [tuple_counter |-> 0, current_custom_deserializer |-> "None", pos |-> U64(0),
     reads |-> 0, seeks |-> 0, tuple_hints |-> <<>>, scope |-> <<>>, allocs |-> <<>>,
     tuples |-> <<>>, errs |-> <<>>, kids |-> <<>>, pops |-> <<>>]

\* Deserializer::with_hints
with_hints(tuple_hints) ==
    [tuple_counter |-> 0, current_custom_deserializer |-> "None", pos |-> U64(0),
     reads |-> 0, seeks |-> 0, tuple_hints |-> tuple_hints, scope |-> <<>>,
     allocs |-> <<>>, tuples |-> <<>>, errs |-> <<>>, kids |-> <<>>, pops |-> <<>>]

ROk(v, de) == [st |-> "ok", v |-> v, e |-> NoErr, de |-> de]

RErr(e, de) == [st |-> "err", v |-> <<>>, e |-> e, de |-> de]

RPanic(de) == [st |-> "panic", v |-> <<>>, e |-> NoErr, de |-> de]

\* a Result of eth.rs returned from a decoder method
FromResult(r, de) == IF r.ok THEN ROk(r.v, de) ELSE RErr(r.e, de)

\* Scope::new; id is bookkeeping: the identifier of the tuple a scope was
\* pushed for, 0 for the scope of a sequence or an option
ScopeNew(offset) ==
    [offset |-> offset, read_head |-> 0, read_tail |-> 0, types |-> <<>>, id |-> 0]

\* the scope read_static_size_tuple and read_dynamic_size_tuple push for
\* the tuple deserialize_tuple has just counted
TupleScope(de, offset) == [ScopeNew(offset) EXCEPT !.id = de.tuple_counter]

has_dynamic_types(scope) == \E i \in 1..Len(scope.types) : scope.types[i] = "Dynamic"

push_scope(de, scope) == [de EXCEPT !.scope = Append(@, scope)]

\* the scope pop_scope returns (when there is one) and the state after it
Top(de) == de.scope[Len(de.scope)]

pop_scope(de) == [de EXCEPT !.scope = Take(@, Len(@) - 1)]

\* a scope that takes every child for Static
PushTypeStatic(de, b) ==
    IF de.scope = <<>> THEN de
    ELSE [de EXCEPT !.scope[Len(de.scope)].types = Append(@, "Static")]

\* the `match self.pop_scope() { Some(mut scope) => ..; push_scope(scope) }`
\* blocks: the top scope updated in place, nothing without a scope
PushType(de, b) ==
    IF de.scope = <<>> THEN de ELSE [de EXCEPT !.scope[Len(de.scope)].types = Append(@, b)]

AddReadHead(de, n) ==
    IF de.scope = <<>> THEN de ELSE [de EXCEPT !.scope[Len(de.scope)].read_head = @ + n]

AddReadTail(de, n) ==
    IF de.scope = <<>> THEN de ELSE [de EXCEPT !.scope[Len(de.scope)].read_tail = @ + n]

SeekError == ErrIO("invalid seek to a negative or overflowing position")

\* RefReadSeek::seek failing: Error::io of the reader's io::Error
SeekFailure == ErrIO("seeker failure")

\* the reader has served one more seek call
Sought(de) == [de EXCEPT !.seeks = @ + 1]

\* seek(SeekFrom::Start(offset)): a Cursor accepts any position
SeekStart(de, offset) ==
    IF seek_fail_at = de.seeks + 1 THEN RErr(SeekFailure, Sought(de))
    ELSE ROk(offset, [Sought(de) EXCEPT !.pos = offset])

\* seek(SeekFrom::Current(k)): an error if the position leaves 0..2^64-1
SeekCurrent(de, k) ==
    LET r == IF k >= 0 THEN AddDigits(de.pos, U64(k), 0)
                       ELSE AddDigits(de.pos, NegDigits(U64(-k)), 0)
        bad == IF k >= 0 THEN r[2] = 1 ELSE r[2] = 0
    IN  IF seek_fail_at = de.seeks + 1 THEN RErr(SeekFailure, Sought(de))
        ELSE IF bad THEN RErr(SeekError, Sought(de))
        ELSE ROk(r[1], [Sought(de) EXCEPT !.pos = r[1]])

\* RefReadSeek::read failing: Error::io of the reader's io::Error
ReadError == ErrIO("reader failure")

\* must_read answering Ok(()) after a short read: what the buffer lacks
\* stays the NUL bytes it was made with
MustReadShortOk(de, n) ==
    LET len == Len(input)
        at == IF U64Small(de.pos) /\ U64Nat(de.pos) < len THEN U64Nat(de.pos) ELSE len
        avail == len - at
        full == U64Small(n) /\ U64Nat(n) <= avail
        calls == IF n = U64(0) THEN 0 ELSE IF full \/ avail = 0 THEN 1 ELSE 2
    IN  IF fail_at > de.reads /\ fail_at <= de.reads + calls
        THEN RErr(ReadError, [de EXCEPT !.reads = fail_at])
        ELSE IF full
        THEN ROk(SubSeq(input, at + 1, at + U64Nat(n)),
                 [de EXCEPT !.reads = @ + calls, !.pos = AddDigits(@, n, 0)[1]])
        ELSE IF U64Small(n)
        THEN ROk(SubSeq(input, at + 1, len) \o Rep(22, U64Nat(n) - avail),
                 [de EXCEPT !.reads = @ + calls, !.pos = AddDigits(@, U64(avail), 0)[1]])
        ELSE RErr(ErrMessage(InsufficientBytes),
                  [de EXCEPT !.reads = @ + calls, !.pos = AddDigits(@, U64(avail), 0)[1]])

\* must_read of n bytes (n a usize): a read gives what is left after
\* min(pos, len) and advances by it; the loop reads once if that fills the
\* buffer or is nothing, else once more to be given 0; short is
\* "insufficient bytes", a failing read is returned by `?`
must_read(de, n) ==
    LET len == Len(input)
        at == IF U64Small(de.pos) /\ U64Nat(de.pos) < len THEN U64Nat(de.pos) ELSE len
        avail == len - at
        full == U64Small(n) /\ U64Nat(n) <= avail
        calls == IF n = U64(0) THEN 0 ELSE IF full \/ avail = 0 THEN 1 ELSE 2
    IN  IF fail_at > de.reads /\ fail_at <= de.reads + calls
        THEN RErr(ReadError,
                  [de EXCEPT !.reads = fail_at,
                             !.pos = IF fail_at = de.reads + 1 THEN @
                                     ELSE AddDigits(@, U64(avail), 0)[1]])
        ELSE IF full
        THEN ROk(SubSeq(input, at + 1, at + U64Nat(n)),
                 [de EXCEPT !.reads = @ + calls, !.pos = AddDigits(@, n, 0)[1]])
        ELSE RErr(ErrMessage(InsufficientBytes),
                  [de EXCEPT !.reads = @ + calls, !.pos = AddDigits(@, U64(avail), 0)[1]])

\* Deserializer::end: Ok only if nothing is left to read
end(de) ==
    With(must_read(de, U64(1)),
         LAMBDA r :
            IF r.st = "ok"
            THEN RErr(ErrParsing("input has not been processed completely"), r.de)
            ELSE IF classify(r.e) = "Data" THEN ROk(<<>>, r.de)
            ELSE RErr(ErrParsing("failed to verify if reader is empty"), r.de))

\* Rust's `a + b` on usize/u64 in this build: a panic if it overflows and
\* overflow checks are on, the wrapped sum otherwise
CheckedAdd(a, b, de) ==
    LET r == U64Add(a, b)
    IN  IF r.over /\ checked THEN RPanic(de) ELSE ROk(r.v, de)

read_uint_head(de, size) ==
    Try(must_read(de, U64(64)),
        LAMBDA r : FromResult(decode_uint(r.v, size), AddReadHead(r.de, 64)))

read_uint_tail(de, size) ==
    Try(must_read(de, U64(64)),
        LAMBDA r : FromResult(decode_uint(r.v, size), AddReadTail(r.de, 64)))

read_int_head(de, size) ==
    Try(must_read(de, U64(64)),
        LAMBDA r : FromResult(decode_int(r.v, size), AddReadHead(r.de, 64)))

peek_uint(de, size) ==
    Try(must_read(de, U64(64)),
        LAMBDA r : Try(SeekCurrent(r.de, -64),
                       LAMBDA k : FromResult(decode_uint(r.v, size), k.de)))

deserialize_uint(de, size) == read_uint_head(PushType(de, "Static"), size)

deserialize_int(de, size) == read_int_head(PushType(de, "Static"), size)

deserialize_bool(de) ==
    Try(must_read(PushType(de, "Static"), U64(64)),
        LAMBDA r : FromResult(decode_bool(r.v), r.de))

\* read_len: twice the length, rounded up to a multiple of 64
ReadLen(len, de) ==
    With(U64Floor64(U64Shl1(len)),
         LAMBDA base : CheckedAdd(base, U64(IF U64Shl1(len) = base THEN 0 ELSE 64), de))

\* read_byte_array: the offset word, the length word, the padded content
read_byte_array(de) ==
    Try(read_uint_head(de, 64), LAMBDA h :
    Try(IF h.de.scope = <<>> THEN ROk(U64Shl1(h.v), h.de)
        ELSE CheckedAdd(U64Shl1(h.v), Top(h.de).offset, PushType(h.de, "Dynamic")),
        LAMBDA offset :
    Try(SeekStart(offset.de, offset.v), LAMBDA sk :
    Try(read_uint_tail(sk.de, 64), LAMBDA len :
    Try(ReadLen(len.v, len.de), LAMBDA read_len :
        \* vec![0; read_len]: above isize::MAX is a capacity-overflow panic
        IF U64TopBit(read_len.v) THEN RPanic(read_len.de)
        ELSE Try(must_read([read_len.de EXCEPT !.allocs = Append(@, read_len.v)],
                           read_len.v),
                 LAMBDA data :
                    FromResult(decode_bytes(data.v, len.v),
                               AddReadTail(data.de, 64 + U64Nat(read_len.v)))))))))

read_char(de) ==
    Try(read_byte_array(de),
        LAMBDA r :
           IF Len(r.v) > 4
           THEN RErr(ErrParsing("parsed char from byte array longer than 4 bytes"), r.de)
           ELSE IF r.v = <<>> \/ ~Utf8Valid(r.v)
                THEN RErr(ErrParsing("parsed byte array cannot decode to a char"), r.de)
           ELSE ROk(Take(r.v, Utf8FirstLen(r.v)), r.de))

read_str(de) ==
    Try(read_byte_array(de),
        LAMBDA r :
           IF ~Utf8Valid(r.v)
           THEN RErr(ErrParsing("parsed byte array cannot decode to a char"), r.de)
           ELSE r)

(***************************************************************************)
(* The fixed big-integer deserializer (custom_de.rs).  Its state fd is     *)
(* [offset, offset_sign, len, serializer_type, content]; a call returns    *)
(* [st, v, e, fd].                                                         *)
(***************************************************************************)
\* serde's Error::invalid_length, made by Error::custom
InvalidLength == ErrMessage("invalid length")

FOk(v, fd) == [st |-> "ok", v |-> v, e |-> NoErr, fd |-> fd]

FErr(e, fd) == [st |-> "err", v |-> <<>>, e |-> e, fd |-> fd]

FPanic(fd) == [st |-> "panic", v |-> <<>>, e |-> NoErr, fd |-> fd]

\* an access that reads an H160 from the first byte of the word
EthFixedAccessNewUnshifted(bytes, t) ==
    [offset |-> IF t = "U256" THEN 31 ELSE 0,
     offset_sign |-> IF t = "U256" THEN -1 ELSE 1,
     len |-> IF t = "H256" THEN 32 ELSE IF t = "H160" THEN 20 ELSE 4,
     serializer_type |-> t, content |-> bytes]

\* EthFixedAccess::new: (len, offset, offset_sign) by type
EthFixedAccessNew(bytes, t) ==
    [offset |-> IF t = "H256" THEN 0 ELSE IF t = "H160" THEN 12 ELSE 31,
     offset_sign |-> IF t = "U256" THEN -1 ELSE 1,
     len |-> IF t = "H256" THEN 32 ELSE IF t = "H160" THEN 20 ELSE 4,
     serializer_type |-> t, content |-> bytes]

\* content[index as usize] is in bounds
InContent(fd, index) == index >= 0 /\ index < Len(fd.content)

\* deserialize_u8 / deserialize_i8 of EthFixedDeserializer
FixedDeserializeU8(fd) ==
    IF fd.serializer_type = "U256" \/ ~InContent(fd, fd.offset) THEN FPanic(fd)
    ELSE FOk(NatToDigits(fd.content[fd.offset + 1], 2),
             [fd EXCEPT !.offset = @ + fd.offset_sign])

\* deserialize_u64 of EthFixedDeserializer: eight bytes, the lowest first
FixedDeserializeU64(fd) ==
    IF fd.serializer_type # "U256"
       \/ \E j \in 0..7 : ~InContent(fd, fd.offset + j * fd.offset_sign)
    THEN FPanic(fd)
    ELSE FOk(BytesToDigits(AsSeq([j \in 1..8 |->
                                    fd.content[fd.offset + (8 - j) * fd.offset_sign + 1]])),
             [fd EXCEPT !.offset = @ + 8 * fd.offset_sign])

\* T::deserialize(&mut EthFixedDeserializer); a tuple goes through
\* EthTupleAccess, whose len is the deserializer's
RECURSIVE DeFixed(_, _)
RECURSIVE EthTupleAccess(_, _, _, _)
DeFixed(t, fd) ==
    CASE t.k = "uint" /\ t.bits = 8 -> FixedDeserializeU8(fd)
      [] t.k = "int" /\ t.bits = 8 -> FixedDeserializeU8(fd)
      [] t.k = "uint" /\ t.bits = 64 -> FixedDeserializeU64(fd)
      [] t.k = "tuple" -> EthTupleAccess(t.es, 0, <<>>, fd)
      [] OTHER -> FErr(ErrNotImplemented, fd)

EthTupleAccess(ts, count, acc, fd) ==
    IF count = Len(ts) THEN FOk(acc, fd)
    ELSE IF count >= fd.len THEN FErr(InvalidLength, fd)
    ELSE Try(DeFixed(ts[count + 1], fd),
             LAMBDA r : EthTupleAccess(ts, count + 1, Append(acc, r.v), r.fd))

\* visitor.visit_seq(EthFixedAccess::new(bytes, t)) for a visitor taking
\* the elements ts: the access has one element
EthFixedAccess(ts, bytes, t, de) ==
    IF Len(bytes) < 32 THEN RPanic(de)
    ELSE IF ts = <<>> THEN ROk(<<>>, de)
    ELSE IF Len(ts) > 1 THEN RErr(InvalidLength, de)
    ELSE With(DeFixed(ts[1], EthFixedAccessNew(bytes, t)),
              LAMBDA r :
                 IF r.st = "ok" THEN ROk(<<r.v>>, de)
                 ELSE IF r.st = "err" THEN RErr(r.e, de) ELSE RPanic(de))

(***************************************************************************)
(* T::deserialize(&mut Deserializer) (de.rs, impl de::Deserializer) with   *)
(* serde's visitors: a tuple, array or struct takes exactly its elements,  *)
(* a Vec takes elements until the access gives None.                       *)
(***************************************************************************)
\* the error as it is, never a hint
GetErrorUnhinted(de, error) == error

\* every Data error of an element becomes a hint
GetErrorHintsAnyData(de, error) ==
    IF classify(error) = "Data" THEN ErrHint(de.tuple_counter, FALSE, error) ELSE error

\* DynamicTupleAccess::get_error
get_error(de, error) ==
    IF classify(error) = "Data"
    THEN LET has_dynamic == IF de.scope = <<>> THEN FALSE ELSE has_dynamic_types(Top(de))
         IN  IF error.desc = InsufficientBytes /\ ~has_dynamic
             THEN ErrHint(de.tuple_counter, FALSE, error)
             ELSE error
    ELSE error

\* count < len and count > len against a usize read from a word
CountBelow(count, len) == ~U64Small(len) \/ count < U64Nat(len)

CountAbove(count, len) == U64Small(len) /\ count > U64Nat(len)

\* an element of an access of this kind failed with the error given and
\* next_element_seed returns the error returned; the scope on top is that
\* of tuple id (0: of a sequence) and the tuple counter is counter
NoteError(de, kind, given, returned) ==
    [de EXCEPT !.errs = Append(@, [kind |-> kind, given |-> given, returned |-> returned,
                                   types |-> IF de.scope = <<>> THEN <<>>
                                             ELSE Top(de).types,
                                   id |-> IF de.scope = <<>> THEN 0 ELSE Top(de).id,
                                   counter |-> de.tuple_counter])]

\* self.scope.pop() by an operation that pushed its scope at this depth of
\* the stack: "own" if that scope is on top, "other" if another one is,
\* "empty" if there is none
NotePop(de, depth) ==
    [de EXCEPT !.pops = Append(@, IF de.scope = <<>> THEN "empty"
                                  ELSE IF Len(de.scope) = depth THEN "own" ELSE "other")]

\* an element of type t has been decoded by an access: the reader and the
\* scope's counters before (in de) and after (in r.de), the reader as
\* next_element_seed leaves it (in sought), the length of a string decoded
\* and whether a sibling follows
NoteChild(sought, t, de, r, more) ==
    [sought EXCEPT !.kids =
        Append(@, [k |-> IF t.k = "newtype" /\ FixedGet(t.name) # "None" THEN "fixed"
                         ELSE IF t.k = "newtype" THEN "tuple" ELSE t.k,
                   t |-> t, more |-> more,
                   slot |-> de.pos, next |-> sought.pos,
                   head0 |-> IF de.scope = <<>> THEN 0 ELSE Top(de).read_head,
                   head1 |-> IF r.de.scope = <<>> THEN 0 ELSE Top(r.de).read_head,
                   tail0 |-> IF de.scope = <<>> THEN 0 ELSE Top(de).read_tail,
                   tail1 |-> IF r.de.scope = <<>> THEN 0 ELSE Top(r.de).read_tail,
                   len |-> IF t.k = "string" THEN Len(r.v) ELSE 0])]

RECURSIVE Deserialize(_, _)
RECURSIVE NextElement(_, _, _, _, _)
RECURSIVE VisitTuple(_, _, _, _, _)
RECURSIVE VisitSeq(_, _, _, _, _)
RECURSIVE read_static_size_tuple(_, _, _)
RECURSIVE read_dynamic_size_tuple(_, _, _)
RECURSIVE read_custom_tuple(_, _, _)
RECURSIVE deserialize_tuple(_, _)
RECURSIVE deserialize_seq(_, _)
RECURSIVE deserialize_option(_, _)

\* next_element_seed of SeqAccess, StaticTupleAccess ("static") and
\* DynamicTupleAccess ("dynamic") past the count check
NextElement(kind, t, count, len, de) ==
    With(Deserialize(t, de),
         LAMBDA r :
            IF r.st = "panic" THEN r
            ELSE IF kind = "dynamic" /\ r.st = "err"
            THEN With(get_error(r.de, r.e),
                      LAMBDA e : RErr(e, NoteError(r.de, kind, r.e, e)))
            ELSE IF r.de.scope = <<>> THEN RPanic(NotePop(r.de, 0))
            ELSE Try(CheckedAdd(Top(r.de).offset, U64(Top(r.de).read_head), r.de),
                     LAMBDA new_offset :
                        With(IF CountBelow(count, len)
                             THEN SeekStart(r.de, new_offset.v) ELSE ROk(<<>>, r.de),
                             LAMBDA sk :
                                \* `seek(..)?` between pop_scope and push_scope
                                IF sk.st = "err" THEN RErr(sk.e, pop_scope(sk.de))
                                ELSE IF r.st = "err"
                                THEN [r EXCEPT !.de = NoteError(sk.de, kind, r.e, r.e)]
                                ELSE [r EXCEPT !.de = NoteChild(sk.de, t, de, r,
                                                                CountBelow(count, len))])))

\* the visitor of a tuple, array or struct over a tuple access
VisitTuple(kind, ts, i, acc, de) ==
    IF i > Len(ts) THEN ROk(acc, de)
    ELSE Try(NextElement(kind, ts[i], i, U64(Len(ts)), de),
             LAMBDA r : VisitTuple(kind, ts, i + 1, Append(acc, r.v), r.de))

\* the visitor of a Vec over SeqAccess: count is the access's counter
VisitSeq(t, count, len, acc, de) ==
    IF CountAbove(count + 1, len) THEN ROk(acc, de)
    ELSE Try(NextElement("seq", t, count + 1, len, de),
             LAMBDA r : VisitSeq(t, count + 1, len, Append(acc, r.v), r.de))

\* the end of read_static_size_tuple / read_dynamic_size_tuple: the tuple's
\* scope is popped, the reader moves on by its read_tail, its read_head is
\* added to the scope below
LeaveTuple(r, depth) ==
    IF r.st = "panic" THEN r
    ELSE IF r.de.scope = <<>> THEN RPanic(NotePop(r.de, depth))
    ELSE Try(SeekCurrent(pop_scope(NotePop(r.de, depth)), Top(r.de).read_tail),
             LAMBDA sk : [r EXCEPT !.de = AddReadHead(sk.de, Top(r.de).read_head)])

read_static_size_tuple(de, offset, ts) ==
    Try(IF de.scope = <<>> THEN ROk(offset, de)
        ELSE CheckedAdd(offset, U64(Top(de).read_head), de),
        LAMBDA at :
           LeaveTuple(VisitTuple("static", ts, 1, <<>>, push_scope(de, TupleScope(de, at.v))),
                      Len(de.scope) + 1))

read_dynamic_size_tuple(de, offset, ts) ==
    Try(read_uint_head(de, 64), LAMBDA h :
    Try(CheckedAdd(U64Shl1(h.v), offset, h.de), LAMBDA at :
    Try(SeekStart(at.de, at.v), LAMBDA sk :
        LeaveTuple(VisitTuple("dynamic", ts, 1, <<>>,
                              push_scope(sk.de, TupleScope(sk.de, at.v))),
                   Len(de.scope) + 1))))

read_custom_tuple(de, t, ts) ==
    Try(must_read(AddReadHead(PushType(de, "Static"), 64), U64(64)), LAMBDA r :
    With(decode_bytes(r.v, U64(32)), LAMBDA bytes :
        IF ~bytes.ok THEN RErr(bytes.e, r.de)
        ELSE EthFixedAccess(ts, bytes.v, t, r.de)))

\* the 64 characters peek_uint reads, <<>> if the read fails
NextWord(de) == must_read(de, U64(64)).v

\* the way deserialize_tuple takes for the tuple it has just counted
NoteTuple(de, word, mode) ==
    [de EXCEPT !.tuples = Append(@, [id |-> de.tuple_counter, word |-> word,
                                     mode |-> mode])]

\* a tuple is always told Static from Dynamic by the word peeked, whatever
\* the hints say
DeserializeTupleUnhinted(de, ts) ==
    With(PushType([de EXCEPT !.tuple_counter = @ + 1], "Dynamic"), LAMBDA de2 :
    With(IF de2.scope = <<>> THEN U64(0) ELSE Top(de2).offset, LAMBDA base :
        IF de2.current_custom_deserializer # "None"
        THEN read_custom_tuple([de2 EXCEPT !.current_custom_deserializer = "None"],
                               de2.current_custom_deserializer, ts)
        ELSE With(peek_uint(de2, 64),
                  LAMBDA peek :
                     IF peek.st # "ok"
                     THEN [peek EXCEPT !.de = NoteTuple(@, NextWord(de2), "Error")]
                     ELSE IF U64Mult32(peek.v)
                     THEN read_dynamic_size_tuple(
                              NoteTuple(peek.de, NextWord(de2), "Dynamic"), base, ts)
                     ELSE read_static_size_tuple(
                              NoteTuple(peek.de, NextWord(de2), "Static"), base, ts))))

\* deserialize_tuple(len, visitor) for a visitor taking the elements ts
deserialize_tuple(de, ts) ==
    With(PushType([de EXCEPT !.tuple_counter = @ + 1], "Dynamic"), LAMBDA de2 :
    With(IF de2.scope = <<>> THEN U64(0) ELSE Top(de2).offset, LAMBDA base :
        IF de2.current_custom_deserializer # "None"
        THEN read_custom_tuple([de2 EXCEPT !.current_custom_deserializer = "None"],
                               de2.current_custom_deserializer, ts)
        ELSE IF de2.tuple_counter \in DOMAIN de2.tuple_hints
        THEN IF de2.tuple_hints[de2.tuple_counter] = "Static"
             THEN read_static_size_tuple(NoteTuple(de2, <<>>, "Static"), base, ts)
             ELSE read_dynamic_size_tuple(NoteTuple(de2, <<>>, "Dynamic"), base, ts)
        ELSE With(peek_uint(de2, 64),
                  LAMBDA peek :
                     IF peek.st # "ok"
                     THEN [peek EXCEPT !.de = NoteTuple(@, NextWord(de2), "Error")]
                     ELSE IF U64Mult32(peek.v)
                     THEN read_dynamic_size_tuple(
                              NoteTuple(peek.de, NextWord(de2), "Dynamic"), base, ts)
                     ELSE read_static_size_tuple(
                              NoteTuple(peek.de, NextWord(de2), "Static"), base, ts))))

\* the shared opening of deserialize_seq and deserialize_option: the offset
\* word, the seek to the payload and its length word; v is <<len, curr>>
SeqOpen(de) ==
    Try(read_uint_head(PushType(de, "Dynamic"), 64), LAMBDA h :
    Try(CheckedAdd(U64Shl1(h.v), IF de.scope = <<>> THEN U64(0) ELSE Top(de).offset, h.de),
        LAMBDA offset :
    Try(SeekStart(offset.de, offset.v), LAMBDA sk :
    Try(read_uint_tail(sk.de, 64), LAMBDA len :
        ROk(<<len.v, offset.v>>, len.de)))))

\* self.scope.pop().unwrap() after the visitor returned
LeaveSeq(r, depth) ==
    IF r.st = "panic" THEN r
    ELSE IF r.de.scope = <<>> THEN RPanic(NotePop(r.de, depth))
    ELSE [r EXCEPT !.de = pop_scope(NotePop(r.de, depth))]

\* visitor.visit_some(value)
Some(r) == IF r.st = "ok" THEN [r EXCEPT !.v = <<@>>] ELSE r

deserialize_seq(de, t) ==
    Try(SeqOpen(de), LAMBDA o :
    Try(CheckedAdd(U64(64), o.v[2], o.de), LAMBDA at :
        LeaveSeq(VisitSeq(t, 0, o.v[1], <<>>, push_scope(at.de, ScopeNew(at.v))),
                 Len(de.scope) + 1)))

deserialize_option(de, t) ==
    Try(SeqOpen(de), LAMBDA o :
        IF o.v[1] = U64(0) THEN ROk(<<>>, o.de)
        ELSE Try(CheckedAdd(U64(64), o.v[2], o.de), LAMBDA at :
                 LeaveSeq(Some(Deserialize(t, push_scope(at.de, ScopeNew(at.v)))),
                          Len(de.scope) + 1)))

\* `value as uN` / `value as iN`: the low bits
Deserialize(t, de) ==
    CASE t.k = "bool" -> deserialize_bool(de)
      [] t.k = "uint" ->
            Try(deserialize_uint(de, t.bits),
                LAMBDA r : [r EXCEPT !.v = LastN(@, t.bits \div 4)])
      [] t.k = "int" ->
            Try(deserialize_int(de, t.bits),
                LAMBDA r : [r EXCEPT !.v = LastN(@, t.bits \div 4)])
      [] t.k = "char" -> read_char(de)
      [] t.k = "string" -> read_str(de)
      [] t.k = "unit" -> ROk(<<>>, de)
      [] t.k = "option" -> deserialize_option(de, t.es[1])
      [] t.k = "seq" -> deserialize_seq(de, t.es[1])
      [] t.k = "newtype" ->
            \* deserialize_newtype_struct: a tuple of one element
            Try(deserialize_tuple(
                    [de EXCEPT !.current_custom_deserializer = FixedGet(t.name)], t.es),
                LAMBDA r : [r EXCEPT !.v = @[1]])
      [] OTHER -> deserialize_tuple(de, t.es)

(***************************************************************************)
(* The universe of the check: the types T and, for each, the values given  *)
(* to to_string.                                                           *)
(***************************************************************************)
U8 == TUInt(8)

\* byte strings of a's, up to n bytes long
AStrings(n) == {Rep(97, k) : k \in 0..n}

Types ==
    {TBool, U8, TUInt(16), TUInt(32), TUInt(64), TInt(8), TInt(16), TInt(32), TInt(64), TChar, TString,
     TOption(U8), TOption(TString), TSeq(U8), TSeq(TUnit), TSeq(TChar),
     TSeq(TOption(TBool)), TTuple(<<U8, TString>>), TTuple(<<TArray(U8, 2), TString>>),
     TTuple(<<TArray(U8, 2), U8>>), TTuple(<<TInt(8), U8>>), TStruct(<<U8, TBool>>), TStruct(<<TChar, TSeq(TBool)>>),
     TTuple(<<TTuple(<<TString>>), U8>>), TTuple(<<TH160, U8>>), TTuple(<<>>),
     TTuple(<<TNewtype("H160", TBool), TTuple(<<U8>>)>>),
     TH256, TH160, TU256}
    \cup {TArray(U8, n) : n \in 1..MaxLen}

RECURSIVE Vals(_)
RECURSIVE Prod(_)
\* the sequences <<v1, .., vn>> with vi a value of ts[i]
Prod(ts) ==
    IF ts = <<>> THEN {<<>>}
    ELSE {<<v>> \o rest : v \in Vals(ts[1]), rest \in Prod(Tail(ts))}

Vals(t) ==
    CASE t.k = "bool" -> BOOLEAN
      [] t.k = "uint" /\ t.bits = 8 -> {<<0, 0>>, <<0, 1>>, <<2, 0>>}
      [] t.k = "uint" -> {Zeros(t.bits \div 4), Rep(15, t.bits \div 4)}
      [] t.k = "int" ->
            {Zeros(t.bits \div 4), Rep(15, t.bits \div 4), <<8>> \o Zeros(t.bits \div 4 - 1)}
      [] t.k = "char" -> {<<97>>, <<195, 169>>}
      [] t.k = "string" -> AStrings(MaxLen)
      [] t.k = "unit" -> {<<>>}
      [] t.k = "option" -> {<<>>} \cup {<<v>> : v \in Vals(t.es[1])}
      [] t.k = "seq" -> UNION {Prod(Rep(t.es[1], n)) : n \in 0..MaxLen}
      [] t = TU256 ->
            {Rep(Zeros(16), 4), <<U64(1), U64(2), U64(3), Rep(15, 16)>>,
             AsSeq([i \in 1..4 |-> <<i, 1, i, 2, i, 3, i, 4, i, 5, i, 6, i, 7, i, 8>>])}
      [] t \in {TH256, TH160} ->
            LET n == Len(t.es[1].es)
            IN  {Rep(<<0, 0>>, n), AsSeq([i \in 1..n |-> NatToDigits(i, 2)])}
      [] t.k = "newtype" -> Vals(t.es[1])
      [] OTHER -> Prod(t.es)

\* a word of the stream for a small number
Word(n) == encode_u64(U64(n))

\* n words: the length of an encoding in words
Words(cs) == Len(cs) \div 64

WordAt(cs, i) == SubSeq(cs, 64 * (i - 1) + 1, 64 * i)

\* the words a caller may put in place of a word of an encoding: small
\* numbers, lengths near 2^23 and 2^62, and the largest u64
Palette ==
    {Word(0), Word(2), Word(32),
     encode_u64(Zeros(10) \o <<8, 0, 0, 0, 0, 1>>),
     encode_u64(<<4>> \o Zeros(15)),
     encode_u64(Rep(15, 16))}

\* words put in place of the word of a signed integer: -200, -129, -128,
\* 127, 128, -2^15, -2^31, -2^63, -(2^64 - 1), 2^64 - 1 and -2^255
IntWords ==
    {Rep(15, 62) \o <<3, 8>>, Rep(15, 62) \o <<7, 15>>, Rep(15, 62) \o <<8, 0>>,
     Zeros(62) \o <<7, 15>>, Zeros(62) \o <<8, 0>>,
     Rep(15, 60) \o <<8, 0, 0, 0>>, Rep(15, 56) \o <<8>> \o Zeros(7),
     Rep(15, 48) \o <<8>> \o Zeros(15), Rep(15, 48) \o Zeros(15) \o <<1>>,
     Zeros(48) \o Rep(15, 16), <<8>> \o Zeros(63)}

\* words put in place of the word of an unsigned integer: 255, 256, 2^16,
\* 2^32, 2^64 and 2^252
UIntWords ==
    {Zeros(62) \o <<15, 15>>, Zeros(61) \o <<1, 0, 0>>, Zeros(59) \o <<1, 0, 0, 0, 0>>,
     Zeros(55) \o <<1>> \o Zeros(8), Zeros(47) \o <<1>> \o Zeros(16), <<1>> \o Zeros(63)}

\* the digits of a sequence of bytes given as two-digit patterns
Flat(v) == AsSeq([j \in 1..(2 * Len(v)) |-> v[(j + 1) \div 2][IF j % 2 = 1 THEN 1 ELSE 2]])

\* words put in place of the word of an H160: the bytes 0, .., 0 and
\* 1, .., 20 after twelve bytes that are not zero
H160Words ==
    {Rep(15, 24) \o Zeros(40),
     Rep(15, 24) \o Flat(AsSeq([i \in 1..20 |-> NatToDigits(i, 2)])),
     <<1>> \o Zeros(23) \o Flat(AsSeq([i \in 1..20 |-> NatToDigits(i, 2)]))}

\* the words a caller may put in place of a word of an encoding of type t
PaletteFor(t) ==
    Palette \cup (IF t.k = "int" THEN IntWords ELSE IF t.k = "uint" THEN UIntWords
                  ELSE IF t.name = "H160" THEN H160Words ELSE {})

\* what a caller may append to an encoding
Extras == {<<0>>, Word(7)}

\* characters that are no lowercase hex digit: 'A' and 'x'
BadChars == {16, 22}

\* the places where a caller may put such a character: the first character
\* and the last one of each leading word
BadPlaces == {1} \cup {64 * k : k \in 1..MaxRewrite}

\* the lengths a caller may cut an encoding down to, all below one word
ShortLens == {0, 1, 63}

(***************************************************************************)
(* The run: to_string of a value, then from_str of the string (as written, *)
(* or with a word replaced, or with characters appended), which is         *)
(* from_reader's loop: an attempt with the hints so far, then a retry with *)
(* one more hint, or the result.                                           *)
(***************************************************************************)
NoRes == [st |-> "none", v |-> <<>>, e |-> NoErr, de |-> with_hints(<<>>)]

NoResult == [st |-> "none", v |-> <<>>, e |-> NoErr]

Init ==
    /\ pc = "idle"
    /\ ty = TUnit
    /\ value = <<>>
    /\ encoded = [st |-> "none", s |-> <<>>, marks |-> <<>>, e |-> NoErr]
    /\ input = <<>>
    /\ origin = "none"
    /\ checked \in BOOLEAN
    /\ fail_at = 0
    /\ seek_fail_at = 0
    /\ hints = <<>>
    /\ attempts = 0
    /\ res = NoRes
    /\ result = NoResult

\* to_string(&v) for a value v of a type t
Serialize(t, v) ==
    /\ pc = "idle"
    /\ ty' = t
    /\ value' = v
    /\ encoded' = to_string(t, v)
    /\ pc' = IF encoded'.st = "ok" THEN "encoded" ELSE "done"
    /\ input' = encoded'.s
    /\ origin' = IF encoded'.st = "ok" THEN "encoded" ELSE "none"
    /\ UNCHANGED <<checked, fail_at, seek_fail_at, hints, attempts, res, result>>

\* the caller replaces word i of the encoding by w (not for a Vec<()>:
\* its elements are decoded without reading, as many as the length word
\* says, which no bounded run follows)
Rewrite(i, w) ==
    /\ pc = "encoded"
    /\ ty # TSeq(TUnit)
    /\ i \in 1..Words(input)
    /\ w \in PaletteFor(ty)
    /\ WordAt(input, i) # w
    /\ input' = Take(input, 64 * (i - 1)) \o w \o Drop(input, 64 * i)
    /\ origin' = "rewritten"
    /\ pc' = "given"
    /\ UNCHANGED <<ty, value, encoded, checked, fail_at, seek_fail_at, hints, attempts, res, result>>

\* the caller appends characters to the encoding
AppendExtra(x) ==
    /\ pc = "encoded"
    /\ input' = input \o x
    /\ origin' = "appended"
    /\ pc' = "given"
    /\ UNCHANGED <<ty, value, encoded, checked, fail_at, seek_fail_at, hints, attempts, res, result>>

\* the caller replaces character i of the encoding by c (not for a
\* Vec<()>, as above)
Corrupt(i, c) ==
    /\ pc = "encoded"
    /\ ty # TSeq(TUnit)
    /\ i \in 1..Len(input)
    /\ input' = [input EXCEPT ![i] = c]
    /\ origin' = "corrupted"
    /\ pc' = "given"
    /\ UNCHANGED <<ty, value, encoded, checked, fail_at, seek_fail_at, hints, attempts, res, result>>

\* the caller puts "0x" before the encoding
Prefix0x ==
    /\ pc = "encoded"
    /\ input' = <<0, 22>> \o input
    /\ origin' = "prefixed"
    /\ pc' = "given"
    /\ UNCHANGED <<ty, value, encoded, checked, fail_at, seek_fail_at, hints, attempts, res, result>>

\* the caller moves the payload of a dynamic value one word further: the
\* root's offset word becomes 64 and a word with a character c in it, which
\* the decoder seeks over, comes before the payload
InsertGap(c) ==
    /\ pc = "encoded"
    /\ Words(input) >= 2
    /\ WordAt(input, 1) = Word(32)
    /\ input' = Word(64) \o [Word(0) EXCEPT ![64] = c] \o Drop(input, 64)
    /\ origin' = "gapped"
    /\ pc' = "given"
    /\ UNCHANGED <<ty, value, encoded, checked, fail_at, seek_fail_at, hints, attempts, res, result>>

\* the caller gives only the first n characters of the encoding
Truncate(n) ==
    /\ pc = "encoded"
    /\ n < Len(input)
    /\ input' = Take(input, n)
    /\ origin' = "truncated"
    /\ pc' = "given"
    /\ UNCHANGED <<ty, value, encoded, checked, fail_at, seek_fail_at, hints, attempts, res, result>>

\* from_reader is given a reader over the encoding that fails at its k-th
\* read call
FaultyReader(k) ==
    /\ pc = "encoded"
    /\ fail_at' = k
    /\ origin' = "faulty"
    /\ pc' = "given"
    /\ UNCHANGED <<ty, value, encoded, input, checked, seek_fail_at, hints, attempts, res,
                   result>>

\* from_reader is given a reader over the encoding that fails at its k-th
\* seek call
FaultySeeker(k) ==
    /\ pc = "encoded"
    /\ seek_fail_at' = k
    /\ origin' = "unseekable"
    /\ pc' = "given"
    /\ UNCHANGED <<ty, value, encoded, input, checked, fail_at, hints, attempts, res, result>>

\* from_reader, one turn of the loop: a new Deserializer with the hints so
\* far over the same reader, and T::deserialize
Attempt ==
    /\ pc \in {"encoded", "given", "retry"}
    /\ res' = Deserialize(ty, [with_hints(hints) EXCEPT !.reads = res.de.reads,
                                                         !.seeks = res.de.seeks])
    /\ attempts' = attempts + 1
    /\ pc' = "attempted"
    /\ UNCHANGED <<ty, value, encoded, input, origin, checked, fail_at, seek_fail_at, hints, result>>

\* the loop goes on without recording the hint
RetryUnrecorded ==
    /\ pc = "attempted"
    /\ res.st = "err"
    /\ res.e.code = "TupleHint"
    /\ res.e.index \notin DOMAIN hints
    /\ pc' = "retry"
    /\ UNCHANGED <<ty, value, encoded, input, origin, checked, fail_at, seek_fail_at, hints, attempts, res, result>>

\* Err(err) with a tuple hint whose index has no hint yet: the hint is
\* recorded and the reader rewound
Retry ==
    /\ pc = "attempted"
    /\ res.st = "err"
    /\ res.e.code = "TupleHint"
    /\ res.e.index \notin DOMAIN hints
    /\ hints' = [i \in DOMAIN hints \cup {res.e.index} |->
                    IF i = res.e.index
                    THEN (IF res.e.is_dynamic THEN "Dynamic" ELSE "Static")
                    ELSE hints[i]]
    /\ LET sk == SeekStart(res.de, U64(0))
       IN  /\ res' = [res EXCEPT !.de = sk.de]
           /\ pc' = IF sk.st = "ok" THEN "retry" ELSE "done"
           /\ result' = IF sk.st = "ok" THEN result
                         ELSE [st |-> "err", v |-> <<>>, e |-> sk.e]
    /\ UNCHANGED <<ty, value, encoded, input, origin, checked, fail_at, seek_fail_at, attempts>>

\* Err(err) without a hint, or with a hint for an index already hinted
ReturnErr ==
    /\ pc = "attempted"
    /\ res.st = "err"
    /\ res.e.code # "TupleHint" \/ res.e.index \in DOMAIN hints
    /\ result' = [st |-> "err", v |-> <<>>, e |-> res.e]
    /\ pc' = "done"
    /\ UNCHANGED <<ty, value, encoded, input, origin, checked, fail_at, seek_fail_at, hints, attempts, res>>

\* Ok(value): de.end()?, then the value
ReturnOk ==
    /\ pc = "attempted"
    /\ res.st = "ok"
    /\ LET r == end(res.de)
       IN  /\ result' = IF r.st = "ok" THEN [st |-> "ok", v |-> res.v, e |-> NoErr]
                         ELSE [st |-> "err", v |-> <<>>, e |-> r.e]
           /\ res' = [res EXCEPT !.de = r.de]
    /\ pc' = "done"
    /\ UNCHANGED <<ty, value, encoded, input, origin, checked, fail_at, seek_fail_at, hints, attempts>>

\* a panic unwinds out of from_str
Panic ==
    /\ pc = "attempted"
    /\ res.st = "panic"
    /\ result' = [st |-> "panic", v |-> <<>>, e |-> NoErr]
    /\ pc' = "done"
    /\ UNCHANGED <<ty, value, encoded, input, origin, checked, fail_at, seek_fail_at, hints, attempts, res>>

Next ==
    \/ \E t \in Types : \E v \in Vals(t) : Serialize(t, v)
    \/ \E i \in 1..MaxRewrite : \E w \in Palette \cup IntWords \cup UIntWords \cup H160Words : Rewrite(i, w)
    \/ \E x \in Extras : AppendExtra(x)
    \/ \E i \in BadPlaces : \E c \in BadChars : Corrupt(i, c)
    \/ Prefix0x
    \/ \E c \in BadChars : InsertGap(c)
    \/ \E n \in ShortLens : Truncate(n)
    \/ \E k \in 1..MaxFail : FaultyReader(k)
    \/ \E k \in 1..MaxSeekFail : FaultySeeker(k)
    \/ Attempt
    \/ Retry
    \/ ReturnErr
    \/ ReturnOk
    \/ Panic

Spec == Init /\ [][Next]_vars

(***************************************************************************)
(* Properties.  from_str has returned when pc = "done"; origin tells what  *)
(* it was given.                                                           *)
(***************************************************************************)
Returned == pc = "done" /\ result.st # "none"

\* C1: decoding the encoding of a value gives that value back:
\* from_str(to_string(v)) returns Ok(v), whatever the type and its nesting
RoundTrip ==
    (Returned /\ origin = "encoded") => (result.st = "ok" /\ result.v = value)

\* C2: a complete encoding followed by at least one more character is
\* rejected with the Syntax error "input has not been processed
\* completely", never answered with Ok
LeftoverRejected ==
    (Returned /\ origin = "appended") =>
        /\ result.st = "err"
        /\ classify(result.e) = "Syntax"
        /\ result.e.desc = "input has not been processed completely"

\* C3: an array [u8; n] with n >= 1 decodes from its own encoding to the
\* same array, also when its first element is a multiple of 32 and the
\* first attempt takes the array for a dynamic tuple
ByteArrayRoundTrip ==
    (Returned /\ origin = "encoded" /\ \E n \in 1..MaxLen : ty = TArray(U8, n)) =>
        (result.st = "ok" /\ result.v = value)

\* an array starting with 0x20 has come back after a second attempt made
\* with the hint Static
ByteArrayRetried ==
    /\ Returned
    /\ origin = "encoded"
    /\ ty = TArray(U8, MaxLen)
    /\ value[1] = <<2, 0>>
    /\ attempts = 2
    /\ hints = <<"Static">>
    /\ result.st = "ok"
    /\ result.v = value

\* the offset word that mark m stands for, as written in the encoding
OffsetWordAt(m) == SubSeq(encoded.s, m.at + 1, m.at + 64)

\* C4: every offset word written holds the distance in bytes from the
\* first head word of the composite that wrote it (after the length word
\* for a sequence, the start of the output for the root) to the first word
\* of the payload it stands for, and that payload lies inside the output
OffsetsAreHeadRelative ==
    encoded.st = "ok" =>
        \A i \in 1..Len(encoded.marks) :
            LET m == encoded.marks[i]
            IN  /\ m.at + 64 <= Len(encoded.s)
                /\ m.anchor <= m.at
                /\ m.target + 64 <= Len(encoded.s)
                /\ OffsetWordAt(m) = Word((m.target - m.anchor) \div 2)

\* a Vec of two non-empty Strings is encoded: the root's offset word and
\* one offset word per element, the second past the first one's payload
OffsetsNested ==
    /\ encoded.st = "ok"
    /\ ty = TSeq(TChar)
    /\ Len(value) = 2
    /\ Len(encoded.marks) = 3
    /\ encoded.marks[3].by = "seq"
    /\ encoded.marks[3].target > encoded.marks[2].target

\* C5 as stated: the offset written for a composite's first dynamic child
\* is 32 times the number of its children, also when a Fixed child takes
\* several words
FirstOffsetCountsChildren ==
    encoded.st = "ok" =>
        \A i \in 1..Len(encoded.marks) :
            LET m == encoded.marks[i]
            IN  (m.first /\ m.by # "root") => OffsetWordAt(m) = Word(32 * m.n)

\* C5: the offset written for a composite's first dynamic child is the
\* length of the composite's head in bytes: 32 for every child and, for a
\* Fixed child of several words, 32 more for each further word
FirstOffsetIsHeadLength ==
    encoded.st = "ok" =>
        \A i \in 1..Len(encoded.marks) :
            LET m == encoded.marks[i]
            IN  (m.first /\ m.by # "root") =>
                    /\ OffsetWordAt(m) = Word(32 * m.n + (m.extra \div 2))
                    /\ OffsetWordAt(m) = Word(m.head \div 2)

\* a tuple ([u8; 2], String) is encoded: its head is the two words of the
\* array and the offset word of the String
FirstOffsetPastWideChild ==
    /\ encoded.st = "ok"
    /\ ty = TTuple(<<TArray(U8, 2), TString>>)
    /\ \E i \in 1..Len(encoded.marks) :
           LET m == encoded.marks[i]
           IN  m.first /\ m.by = "tuple" /\ m.n = 2 /\ m.extra = 64 /\ m.head = 192

\* a type whose values are encoded as dynamic
RECURSIVE IsDynamic(_)
IsDynamic(t) ==
    CASE t.k \in {"char", "string", "seq", "option"} -> TRUE
      [] t.k \in {"tuple", "struct"} -> \E i \in 1..Len(t.es) : IsDynamic(t.es[i])
      [] OTHER -> FALSE

\* C6: the encoding of a dynamic top-level value starts with a word that
\* encodes 32
RootOffsetIs32 ==
    (encoded.st = "ok" /\ IsDynamic(ty)) => Take(encoded.s, 64) = Word(32)

\* a struct with a Vec in it is encoded, the root's offset word first
RootOffsetWritten ==
    /\ encoded.st = "ok"
    /\ ty = TStruct(<<TChar, TSeq(TBool)>>)
    /\ Len(value[2]) = MaxLen
    /\ Len(encoded.s) > 64
    /\ encoded.marks[1].by = "root"

\* C7: in the encoding of a Vec with n elements the word after the root's
\* offset word encodes n, whatever the element type
LengthWordCountsElements ==
    (encoded.st = "ok" /\ ty.k = "seq") =>
        /\ Words(encoded.s) >= 2
        /\ WordAt(encoded.s, 2) = Word(Len(value))

\* C8: an Option whose length word L, found where the offset word points,
\* is neither 0 nor 1 is refused with a Data error
OptionLengthIs0Or1 ==
    (/\ Returned
     /\ ty.k = "option"
     /\ Words(input) >= 2
     /\ WordAt(input, 1) = Word(32)
     /\ WordAt(input, 2) \notin {Word(0), Word(1)}) =>
        (result.st = "err" /\ classify(result.e) = "Data")

\* twice the length is more than 16 MiB: the length is above 2^23
OverCeiling(word) ==
    Bits(word) >= 24 /\ word # encode_u64(Zeros(10) \o <<8, 0, 0, 0, 0, 0>>)

\* C9: a String or char whose declared length L has 2 * L above what is
\* left of the 16 MiB a decode may consume is refused with a Data error,
\* and no buffer has been allocated for it
CeilingBeforeAllocation ==
    (/\ Returned
     /\ ty \in {TString, TChar}
     /\ Words(input) >= 2
     /\ WordAt(input, 1) = Word(32)
     /\ OverCeiling(WordAt(input, 2))) =>
        /\ result.st = "err"
        /\ classify(result.e) = "Data"
        /\ res.de.allocs = <<>>

\* C10: from_str returns Ok or Err for every input string; it never panics
NeverPanics == Returned => result.st # "panic"

\* the reader has returned its io::Error
ReaderFailed == fail_at > 0 /\ res.de.reads >= fail_at

\* C11: a failure of the reader is returned to the caller as an error of
\* category IO wherever the read was made, the read of end() included
IOErrorSurfaces ==
    (Returned /\ ReaderFailed) => (result.st = "err" /\ classify(result.e) = "IO")

\* C12: a word decodes to a signed integer of b bits exactly when it is
\* the 256-bit two's complement of a value of that range, that is the sign
\* extension of its own low b bits, and then to that value: from_str of one
\* word for i8, i16, i32 or i64 never gives a truncated or sign-flipped value
DecodeIntExact ==
    (Returned /\ fail_at = 0 /\ ty.k = "int" /\ Len(input) = 64) =>
        LET low == LastN(input, ty.bits \div 4)
        IN  IF input = SignExtend(low, 64)
            THEN result.st = "ok" /\ result.v = low
            ELSE result.st = "err"

\* C13: a word whose value is 2^b or more is refused for an unsigned
\* integer of b bits (u8, u16, u32, u64), and the error is of category Data
UIntOutOfRangeIsData ==
    (Returned /\ ty.k = "uint" /\ Len(input) = 64 /\ Bits(input) > ty.bits) =>
        (result.st = "err" /\ classify(result.e) = "Data")

\* C14: the error of a read that was given nothing where bytes were
\* expected is told apart by classify: its category is EOF and is_eof is
\* true of it
ShortReadIsEOF ==
    (Returned /\ result.st = "err" /\ result.e.desc = InsufficientBytes) =>
        (classify(result.e) = "EOF" /\ is_eof(result.e))

\* the string given to from_str holds a character that is no lowercase
\* hex digit
HasBadChar == \E i \in 1..Len(input) : input[i] >= 16

\* C15: a string with a character that is no lowercase hex digit is
\* refused with a Syntax error wherever the character is: a 0x prefix, an
\* uppercase digit, a character in a region the decoder seeks over
BadCharIsSyntax ==
    (Returned /\ fail_at = 0 /\ HasBadChar) =>
        (result.st = "err" /\ classify(result.e) = "Syntax")

\* C16: for a bool or an integer of 8 to 64 bits every string shorter than
\* one word, the empty one included, is refused with the Data error
\* "insufficient bytes read from reader"
ShortScalarInsufficient ==
    (Returned /\ fail_at = 0 /\ ty.k \in {"bool", "uint", "int"} /\ Len(input) < 64) =>
        /\ result.st = "err"
        /\ classify(result.e) = "Data"
        /\ result.e.desc = InsufficientBytes

\* from_str::<i32>("") has returned its error
EmptyScalarRefused ==
    /\ Returned
    /\ origin = "truncated"
    /\ ty = TInt(32)
    /\ input = <<>>
    /\ result.st = "err"
    /\ result.e = ErrMessage(InsufficientBytes)

\* the 32 bytes of a U256 given as four limbs, the least significant limb
\* first, in big-endian order
BigEndian(limbs) == limbs[4] \o limbs[3] \o limbs[2] \o limbs[1]

\* C17: to_string of a U256 given as four 64-bit limbs, the least
\* significant first, writes one word, the big-endian bytes of the value,
\* and from_str of that word gives the same four limbs
U256OneWordBigEndian ==
    /\ (ty = TU256 /\ pc # "idle") =>
           (encoded.st = "ok" /\ encoded.s = BigEndian(value))
    /\ (Returned /\ ty = TU256 /\ origin = "encoded") =>
           (result.st = "ok" /\ result.v = value)

\* a U256 whose 32 bytes all differ has been written and read back
U256DistinctBytesBack ==
    /\ Returned
    /\ origin = "encoded"
    /\ ty = TU256
    /\ value[1] = <<1, 1, 1, 2, 1, 3, 1, 4, 1, 5, 1, 6, 1, 7, 1, 8>>
    /\ Take(encoded.s, 4) = <<4, 1, 4, 2>>
    /\ Len(encoded.s) = 64
    /\ result.st = "ok"
    /\ result.v = value

\* C18: to_string of an H160 writes one word, twelve zero bytes and then
\* its 20 bytes; from_str of a word gives the H160 of the word's last 20
\* bytes without error, whatever the first twelve bytes are
H160RightAligned ==
    /\ (ty = TH160 /\ pc # "idle") =>
           (encoded.st = "ok" /\ encoded.s = Zeros(24) \o Flat(value))
    /\ (Returned /\ fail_at = 0 /\ ty = TH160 /\ Len(input) = 64 /\ ~HasBadChar) =>
           (result.st = "ok" /\ Flat(result.v) = LastN(input, 40))

\* the word of the H160 1, .., 20 with its first twelve bytes set to 0xff
\* has been decoded to the same H160
H160DirtyPrefixBack ==
    /\ Returned
    /\ origin = "rewritten"
    /\ ty = TH160
    /\ value[20] = <<1, 4>>
    /\ Take(input, 24) = Rep(15, 24)
    /\ LastN(input, 40) = LastN(encoded.s, 40)
    /\ result.st = "ok"
    /\ result.v = value

\* the value of a word of hex digits is divisible by 32
WordMult32(w) == (HexVal(w[63]) * 16 + HexVal(w[64])) % 32 = 0

IsHexWord(w) == Len(w) = 64 /\ \A i \in 1..64 : HexVal(w[i]) >= 0

\* C19: a tuple with no fixed big integer pending is decoded as the hint
\* for its identifier says if there is one; with no hint the next word is
\* peeked as an unsigned integer and the tuple is decoded Dynamic if the
\* value is divisible by 32 and Static if it is not
TupleModeByHintOrPeek ==
    pc \in {"attempted", "done"} =>
        \A i \in 1..Len(res.de.tuples) :
            LET t == res.de.tuples[i]
            IN  IF t.id \in DOMAIN res.de.tuple_hints
                THEN t.mode = res.de.tuple_hints[t.id]
                ELSE IsHexWord(t.word) =>
                        t.mode = IF WordMult32(t.word) THEN "Dynamic" ELSE "Static"

\* C20: the error of an element is turned into a TupleHint with
\* is_dynamic = false exactly when the element belongs to a tuple decoded
\* as Dynamic, the error is a Data error described "insufficient bytes read
\* from reader" and the tuple's scope has recorded no dynamic child; any
\* other error, and any error of an element of a Static tuple or of a
\* sequence, is returned as it is
HintOnlyFromShortDynamicTuple ==
    pc \in {"attempted", "done"} =>
        \A i \in 1..Len(res.de.errs) :
            LET x == res.de.errs[i]
            IN  IF /\ x.kind = "dynamic"
                   /\ classify(x.given) = "Data"
                   /\ x.given.desc = InsufficientBytes
                   /\ \A j \in 1..Len(x.types) : x.types[j] # "Dynamic"
                THEN /\ classify(x.returned) = "TupleHint"
                     /\ x.returned.is_dynamic = FALSE
                     /\ x.returned.desc = x.given.desc
                ELSE x.returned = x.given

\* an attempt has ended in which an element of a Dynamic tuple with no
\* dynamic child ran out of bytes and its error came back as a hint
HintRaisedInDynamicTuple ==
    /\ pc = "attempted"
    /\ res.st = "err"
    /\ \E i \in 1..Len(res.de.errs) :
           LET x == res.de.errs[i]
           IN  /\ x.kind = "dynamic"
               /\ x.given = ErrMessage(InsufficientBytes)
               /\ \A j \in 1..Len(x.types) : x.types[j] # "Dynamic"
               /\ classify(x.returned) = "TupleHint"
               /\ x.returned.is_dynamic = FALSE

\* the hint map with the hint of a TupleHint error put in
WithHint(map, e) ==
    [i \in DOMAIN map \cup {e.index} |->
        IF i = e.index THEN (IF e.is_dynamic THEN "Dynamic" ELSE "Static") ELSE map[i]]

\* the decoder a new turn of the loop starts with: the reader at offset 0,
\* tuple counter 0, no scope, no pending fixed type, the hints given
FreshDecoder(map) ==
    [tuple_counter |-> 0, current_custom_deserializer |-> "None", pos |-> U64(0),
     reads |-> res.de.reads, seeks |-> res.de.seeks, tuple_hints |-> map,
     scope |-> <<>>, allocs |-> <<>>, tuples |-> <<>>, errs |-> <<>>, kids |-> <<>>,
     pops |-> <<>>]

\* the reader refuses the seek back to offset 0 that comes before a retry
RewindFails == seek_fail_at = res.de.seeks + 1

\* from_reader returned the error of that seek and not the hint
RewindFailed ==
    /\ pc = "done"
    /\ res.st = "err"
    /\ res.e.code = "TupleHint"
    /\ result = [st |-> "err", v |-> <<>>, e |-> SeekFailure]

\* C21: when an attempt fails with a TupleHint whose identifier is not in
\* the hint map, the hint is put in the map and decoding starts again from
\* offset 0 with a fresh decoder that has every hint collected so far (the
\* error of the reader is returned if it refuses to go back to offset 0);
\* when the identifier is in the map already, or the error is no TupleHint,
\* the error is returned and no other attempt is made
RetryStep ==
    [][/\ (pc = "attempted" /\ res.st = "err") =>
            IF res.e.code = "TupleHint" /\ res.e.index \notin DOMAIN hints
            THEN /\ hints' = WithHint(hints, res.e)
                 /\ attempts' = attempts
                 /\ IF RewindFails
                    THEN pc' = "done" /\ result' = [st |-> "err", v |-> <<>>, e |-> SeekFailure]
                    ELSE pc' = "retry" /\ result' = result
            ELSE /\ pc' = "done"
                 /\ result' = [st |-> "err", v |-> <<>>, e |-> res.e]
                 /\ attempts' = attempts
       /\ pc = "retry" =>
            /\ pc' = "attempted"
            /\ attempts' = attempts + 1
            /\ hints' = hints
            /\ res' = Deserialize(ty, FreshDecoder(hints))
            /\ res'.de.tuple_hints = hints]_vars

\* a second attempt has been made with the hint the first one asked for
SecondAttemptHinted ==
    /\ pc = "attempted"
    /\ attempts = 2
    /\ DOMAIN hints = {1}
    /\ res.de.tuple_hints = hints
    /\ res.de.tuples # <<>>
    /\ res.de.tuples[1].word = <<>>

\* C22: from_reader makes finitely many attempts: but for the first, every
\* attempt is paid for by one more identifier in the hint map; a retry puts
\* in one identifier that was not there, counted as a tuple by the attempt
\* that failed, and keeps the others; the first attempt is made with no
\* hint
FiniteAttempts ==
    /\ [](attempts > 0 =>
            /\ attempts = Cardinality(DOMAIN hints)
                             + (IF pc = "retry" \/ RewindFailed THEN 0 ELSE 1)
            /\ (attempts = 1 /\ pc = "attempted") =>
                  /\ res.de.tuple_hints = <<>>
                  /\ \A i \in 1..Len(res.de.tuples) :
                        res.de.tuples[i].mode = "Error" \/ res.de.tuples[i].word # <<>>)
    /\ [][pc' = "retry" =>
            /\ res.e.index \notin DOMAIN hints
            /\ res.e.index \in 1..res.de.tuple_counter
            /\ DOMAIN hints' = DOMAIN hints \cup {res.e.index}
            /\ \A k \in DOMAIN hints : hints'[k] = hints[k]]_vars

\* from_str has answered Ok after more than one attempt
OkAfterRetry ==
    /\ Returned
    /\ result.st = "ok"
    /\ attempts > 1
    /\ Cardinality(DOMAIN hints) = attempts - 1

\* the elements decoded by the accesses of the latest attempt
Kids == res.de.kids

\* C23: after a child of one static word (a bool, an integer, a fixed big
\* integer) has been decoded as an element of a sequence or a tuple, the
\* head counter of the scope is 64 characters (32 bytes) further
StaticChildAdvancesHead ==
    pc \in {"attempted", "done"} =>
        \A i \in 1..Len(Kids) :
            Kids[i].k \in {"bool", "uint", "int", "fixed"} =>
                Kids[i].head1 = Kids[i].head0 + 64

\* C24: after a dynamic child (a string, a sequence, an option, a tuple or
\* record with a dynamic child) that has a sibling after it has been decoded
\* from an encoding as written, the reader is at the sibling's head slot, 64
\* characters (32 bytes) after the child's own head slot
DynamicChildReanchored ==
    (pc \in {"attempted", "done"} /\ origin = "encoded") =>
        \A i \in 1..Len(Kids) :
            (IsDynamic(Kids[i].t) /\ Kids[i].more) =>
                Kids[i].next = AddDigits(Kids[i].slot, U64(64), 0)[1]

\* C25: after a string child of length L has been decoded as an element of
\* a sequence or a tuple, the tail counter of the scope is
\* 64 + 64 * ceil(L / 32) characters further: the length word and the
\* padded payload
StringChildAdvancesTail ==
    pc \in {"attempted", "done"} =>
        \A i \in 1..Len(Kids) :
            Kids[i].k = "string" =>
                Kids[i].tail1 = Kids[i].tail0 + 64 + 64 * ((Kids[i].len + 31) \div 32)

\* the layout tree to_string builds for a tuple or record before it is
\* linearized
LayoutTree ==
    SerNodeElems(ty.es, value, 1, NodeSerializerNew(NodeTuple(<<>>))).ns.root

\* the length a tuple's linearization has when nothing but its children's
\* bytes and one offset word for every Dynamic child is written
RECURSIVE TupleLen(_, _)
TupleLen(simple_nodes, i) ==
    IF i > Len(simple_nodes) THEN 0
    ELSE (IF simple_nodes[i].k = "Fixed" THEN 0 ELSE 64) + Len(simple_nodes[i].s)
         + TupleLen(simple_nodes, i + 1)

\* the strings of the children of one kind, in order
RECURSIVE ConcatKind(_, _, _)
ConcatKind(simple_nodes, i, kind) ==
    IF i > Len(simple_nodes) THEN <<>>
    ELSE (IF simple_nodes[i].k = kind THEN simple_nodes[i].s ELSE <<>>)
         \o ConcatKind(simple_nodes, i + 1, kind)

\* a Tuple node and every Tuple node below it: Fixed exactly when every
\* child is Fixed, and then its children's strings one after the other;
\* Dynamic exactly when a child is Dynamic, and then a head of the Fixed
\* children's strings and one offset word for every Dynamic child, before
\* a tail of the Dynamic children's strings; never a length word
RECURSIVE TuplesLinearized(_)
TuplesLinearized(node) ==
    /\ \A i \in 1..Len(node.ch) : TuplesLinearized(node.ch[i])
    /\ node.k = "Tuple" =>
          LET simple == serialize_node_to_simple(node)
              simple_nodes == AsSeq([i \in 1..Len(node.ch) |->
                                        serialize_node_to_simple(node.ch[i])])
              all_fixed == \A i \in 1..Len(simple_nodes) : simple_nodes[i].k = "Fixed"
              tail == ConcatKind(simple_nodes, 1, "Dynamic")
          IN  /\ simple.k = "Fixed" <=> all_fixed
              /\ simple.k = "Dynamic" <=> ~all_fixed
              /\ Len(simple.s) = TupleLen(simple_nodes, 1)
              /\ all_fixed => simple.s = ConcatKind(simple_nodes, 1, "Fixed")
              /\ LastN(simple.s, Len(tail)) = tail
              /\ node.ch = <<>> => simple.s = <<>>

\* C26: a tuple or record is written without a length word; it is Fixed
\* (its bytes in the parent's head, no offset word) exactly when every
\* child is Fixed, Dynamic (an offset word in the parent's head, its
\* content in the parent's tail) exactly when a child is Dynamic; the empty
\* tuple is written as nothing
TupleFixedIffChildrenFixed ==
    (encoded.st = "ok" /\ pc = "encoded" /\ ty.k \in {"tuple", "struct"}) =>
        /\ TuplesLinearized(LayoutTree)
        /\ ty.es = <<>> => encoded.s = <<>>
        /\ IsDynamic(ty) <=> serialize_node_to_simple(LayoutTree).k = "Dynamic"

\* a tuple of a Fixed tuple and a string has been written: the array's two
\* words, the string's offset word, then the string
MixedTupleWritten ==
    /\ pc = "encoded"
    /\ ty = TTuple(<<TArray(U8, 2), TString>>)
    /\ value = <<<<<<0, 1>>, <<2, 0>>>>, <<97>>>>
    /\ encoded.s = Word(32) \o Word(1) \o Word(32) \o Word(96) \o Word(1)
                   \o BytesToDigits(<<97>> \o Zeros(31))

\* the elements that failed in the accesses of the latest attempt
Errs == res.de.errs

\* C28: when the error of an element of a Dynamic tuple is turned into a
\* TupleHint, the tuple counter is the identifier deserialize_tuple gave
\* to that tuple (nothing has been counted since), and the hint names it
HintNamesFailedTuple ==
    pc \in {"attempted", "done"} =>
        \A i \in 1..Len(Errs) :
            (Errs[i].returned.code = "TupleHint" /\ Errs[i].given.code # "TupleHint") =>
                /\ Errs[i].kind = "dynamic"
                /\ Errs[i].id >= 1
                /\ Errs[i].counter = Errs[i].id
                /\ Errs[i].returned.index = Errs[i].id

\* a hint has been raised for the second tuple an attempt counted, inside
\* the first
HintForInnerTuple ==
    /\ pc = "attempted"
    /\ res.st = "err"
    /\ res.e.code = "TupleHint"
    /\ res.e.index = 2
    /\ \E i \in 1..Len(Errs) :
          /\ Errs[i].given.code # "TupleHint"
          /\ Errs[i].returned = res.e
          /\ Errs[i].id = 2
          /\ Errs[i].counter = 2

\* C27: an attempt never fails with a TupleHint whose identifier is in the
\* hint map already (a tuple with a Static hint is not decoded as Dynamic
\* again), so from_reader never returns an error of category TupleHint
HintNeverRepeated ==
    /\ (pc = "attempted" /\ res.st = "err" /\ res.e.code = "TupleHint") =>
          res.e.index \notin DOMAIN hints
    /\ (Returned /\ result.st = "err") => classify(result.e) # "TupleHint"

\* from_str has returned the error of an attempt made with a hint
ErrAfterRetry ==
    /\ Returned
    /\ result.st = "err"
    /\ attempts > 1
    /\ \E k \in DOMAIN hints : hints[k] = "Static"
    /\ \E i \in 1..Len(res.de.tuples) :
          /\ res.de.tuples[i].id \in DOMAIN hints
          /\ res.de.tuples[i].mode = "Static"

\* the fixed type selected in the serializer of a tuple's or record's
\* children after the first i of them have been serialized
SelectionAfter(i) ==
    SerNodeElems(Take(ty.es, i), Take(value, i), 1,
                 NodeSerializerNew(NodeTuple(<<>>))).ns.current_custom_serializer

\* the type with the wrappers taken off its children that wrap no tuple
Unwrapped(t) ==
    [t EXCEPT !.es = AsSeq([i \in 1..Len(t.es) |->
                              IF t.es[i].k = "newtype" /\ t.es[i].es[1].k # "tuple"
                              THEN t.es[i].es[1] ELSE t.es[i]])]

\* C30: the fixed type a newtype wrapper named H256, H160 or U256 selects
\* is cleared once the wrapped value has been serialized, whatever the
\* value is: no selection is left after any child of a tuple or record,
\* and a wrapper around a value that is no tuple leaves the encoding of its
\* siblings as it is without the wrapper
SelectionClearedAfterValue ==
    (pc = "encoded" /\ encoded.st = "ok" /\ ty.k \in {"tuple", "struct"}) =>
        /\ \A i \in 1..Len(ty.es) : SelectionAfter(i) = "None"
        /\ encoded.s = to_string(Unwrapped(ty), value).s

\* the pops of pushed scopes the latest attempt has made
Pops == res.de.pops

\* C29: every scope pushed while a sequence, an option or a tuple is
\* decoded is popped by the operation that pushed it, whether its elements
\* decode or fail, a failed seek of the reader between two siblings
\* included; no pop finds the stack empty; when an attempt returns, the
\* scope stack is empty
ScopesBalanced ==
    pc \in {"attempted", "done"} =>
        /\ \A i \in 1..Len(Pops) : Pops[i] = "own"
        /\ res.st # "panic" => res.de.scope = <<>>

=============================================================================
